----------------------- MODULE SchedulerOrderProofs -----------------------
(* Proofs about Scheduler: the readers of the queues get the items of a    *)
(* stream one after the other, and a copied stream stays within the        *)
(* tolerance of the others.                                                *)
EXTENDS SchedulerTypeProofs

(***************************************************************************)
(* The items of stream i in a fifo s: numbered a + 1 .. b, in this order;  *)
(* those without timestamp do not count.                                   *)
(***************************************************************************)
Line(s, i, a, b) ==
    /\ a <= b
    /\ \A j \in DOMAIN s : s[j][1] = i /\ s[j][2] # NOPTS => s[j][2] \in a + 1 .. b
    /\ \A j, l \in DOMAIN s :
          (j < l /\ s[j][1] = i /\ s[l][1] = i /\ s[j][2] # NOPTS /\ s[l][2] # NOPTS) => s[j][2] < s[l][2]
    /\ \A n \in a + 1 .. b : \E j \in DOMAIN s : s[j] = <<i, n>>

LEMMA AppendAt ==
    ASSUME NEW A, NEW s \in Seq(A), NEW x \in A
    PROVE  \E l \in Nat : /\ l = Len(s) /\ DOMAIN s = 1 .. l /\ DOMAIN Append(s, x) = 1 .. l + 1
                          /\ \A j \in 1 .. l : Append(s, x)[j] = s[j]
                          /\ Append(s, x)[l + 1] = x
OBVIOUS

LEMMA AppendHas ==
    ASSUME NEW A, NEW s \in Seq(A), NEW x \in A
    PROVE  \A j \in DOMAIN Append(s, x) : (j \in DOMAIN s /\ Append(s, x)[j] = s[j]) \/ Append(s, x)[j] = x
<1>1. PICK l \in Nat : /\ DOMAIN s = 1 .. l /\ DOMAIN Append(s, x) = 1 .. l + 1
                       /\ \A j \in 1 .. l : Append(s, x)[j] = s[j]
                       /\ Append(s, x)[l + 1] = x
  BY AppendAt
<1>2. \A j \in 1 .. l + 1 : j \in 1 .. l \/ j = l + 1 OBVIOUS
<1> QED BY <1>1, <1>2

LEMMA LineAppend ==
    ASSUME NEW I, NEW s \in Seq(I \X Nat), NEW i \in I, NEW a \in Nat, NEW b \in Nat, Line(s, i, a, b)
    PROVE  Line(Append(s, <<i, b + 1>>), i, a, b + 1)
<1>a. b + 1 \in Nat OBVIOUS
<1>1. PICK x \in I \X Nat : x = <<i, b + 1>> BY <1>a
<1>2. x[1] = i /\ x[2] = b + 1 BY <1>1
<1>3. PICK l \in Nat : /\ DOMAIN s = 1 .. l /\ DOMAIN Append(s, x) = 1 .. l + 1
                       /\ \A j \in 1 .. l : Append(s, x)[j] = s[j]
                       /\ Append(s, x)[l + 1] = x
  <2>1. PICK B : B = I \X Nat OBVIOUS
  <2>2. s \in Seq(B) /\ x \in B BY <2>1
  <2> QED BY <2>2, AppendAt
<1>4. PICK r : r = Append(s, x) OBVIOUS
<1>5. /\ DOMAIN r = 1 .. l + 1 /\ \A j \in 1 .. l : r[j] = s[j]
      /\ r[l + 1] = x
  BY <1>3, <1>4
<1>6. \A j \in 1 .. l + 1 : j \in 1 .. l \/ j = l + 1 OBVIOUS
<1>7. \A j \in 1 .. l : s[j] \in I \X Nat BY <1>3
<1>8. \A j \in 1 .. l : s[j][1] = i /\ s[j][2] # NOPTS => s[j][2] \in a + 1 .. b BY <1>3 DEF Line
<1>9. \A j \in 1 .. l + 1 : r[j][1] = i /\ r[j][2] # NOPTS => r[j][2] \in a + 1 .. b + 1
  <2> SUFFICES ASSUME NEW j \in 1 .. l + 1, r[j][1] = i, r[j][2] # NOPTS PROVE r[j][2] \in a + 1 .. b + 1
    OBVIOUS
  <2>1. a <= b BY DEF Line
  <2>2. CASE j \in 1 .. l
    <3>1. r[j][2] \in a + 1 .. b BY <1>5, <1>8, <2>2
    <3> QED BY <3>1
  <2>3. CASE j = l + 1
    <3>1. r[j][2] = b + 1 BY <1>2, <1>5, <2>3
    <3> QED BY <2>1, <3>1
  <2> QED BY <1>6, <2>2, <2>3
<1>10. ASSUME NEW j \in 1 .. l + 1, NEW k \in 1 .. l + 1, j < k,
              r[j][1] = i, r[k][1] = i, r[j][2] # NOPTS, r[k][2] # NOPTS
       PROVE  r[j][2] < r[k][2]
  <2>1. j \in 1 .. l BY <1>10
  <2>2. r[j] = s[j] BY <1>5, <2>1
  <2>3. s[j][2] \in a + 1 .. b BY <1>8, <1>10, <2>1, <2>2
  <2>4. CASE k \in 1 .. l
    <3>1. r[k] = s[k] BY <1>5, <2>4
    <3> QED BY <1>3, <1>10, <2>1, <2>2, <2>4, <3>1 DEF Line
  <2>5. CASE k = l + 1
    <3>1. r[k][2] = b + 1 BY <1>2, <1>5, <2>5
    <3>2. \A v \in a + 1 .. b : v < b + 1 OBVIOUS
    <3>3. r[j][2] \in a + 1 .. b BY <2>2, <2>3
    <3> QED BY <3>1, <3>2, <3>3
  <2> QED BY <1>6, <2>4, <2>5
<1>11. ASSUME NEW n \in a + 1 .. b + 1 PROVE \E j \in 1 .. l + 1 : r[j] = <<i, n>>
  <2>1. CASE n = b + 1
    <3>1. l + 1 \in 1 .. l + 1 /\ r[l + 1] = <<i, n>> BY <1>1, <1>5, <2>1
    <3> QED BY <3>1
  <2>2. CASE n # b + 1
    <3>1. n \in a + 1 .. b BY <2>2
    <3>2. PICK j \in 1 .. l : s[j] = <<i, n>> BY <1>3, <3>1 DEF Line
    <3>3. j \in 1 .. l + 1 /\ r[j] = <<i, n>> BY <1>5, <3>2
    <3> QED BY <3>3
  <2> QED BY <2>1, <2>2
<1>12. a <= b + 1 BY DEF Line
<1>13. Line(r, i, a, b + 1) BY <1>5, <1>9, <1>10, <1>11, <1>12 DEF Line
<1> QED BY <1>1, <1>4, <1>13

LEMMA LineOther ==
    ASSUME NEW A, NEW s \in Seq(A), NEW i, NEW a, NEW b, Line(s, i, a, b),
           NEW x \in A, x[1] # i \/ x[2] = NOPTS
    PROVE  Line(Append(s, x), i, a, b)
<1>1. PICK l \in Nat : /\ DOMAIN s = 1 .. l /\ DOMAIN Append(s, x) = 1 .. l + 1
                       /\ \A j \in 1 .. l : Append(s, x)[j] = s[j]
                       /\ Append(s, x)[l + 1] = x
  BY AppendAt
<1>2. PICK r : r = Append(s, x) OBVIOUS
<1>3. DOMAIN r = 1 .. l + 1 /\ (\A j \in 1 .. l : r[j] = s[j]) /\ r[l + 1] = x BY <1>1, <1>2
<1>4. \A j \in 1 .. l + 1 : j \in 1 .. l \/ j = l + 1 OBVIOUS
<1>5. \A j \in 1 .. l : j \in 1 .. l + 1 OBVIOUS
<1>6. \A j \in 1 .. l + 1 : r[j][1] = i /\ r[j][2] # NOPTS => j \in 1 .. l /\ r[j] = s[j]
  BY <1>3, <1>4
<1>7. \A j \in 1 .. l + 1 : r[j][1] = i /\ r[j][2] # NOPTS => r[j][2] \in a + 1 .. b
  BY <1>1, <1>6 DEF Line
<1>8. \A j, k \in 1 .. l + 1 :
         (j < k /\ r[j][1] = i /\ r[k][1] = i /\ r[j][2] # NOPTS /\ r[k][2] # NOPTS) => r[j][2] < r[k][2]
  <2> SUFFICES ASSUME NEW j \in 1 .. l + 1, NEW k \in 1 .. l + 1, j < k, r[j][1] = i, r[k][1] = i,
                      r[j][2] # NOPTS, r[k][2] # NOPTS
               PROVE  r[j][2] < r[k][2]
    OBVIOUS
  <2>1. j \in 1 .. l /\ r[j] = s[j] /\ k \in 1 .. l /\ r[k] = s[k] BY <1>6
  <2>2. \A f, g \in 1 .. l :
           (f < g /\ s[f][1] = i /\ s[g][1] = i /\ s[f][2] # NOPTS /\ s[g][2] # NOPTS) => s[f][2] < s[g][2]
    BY <1>1 DEF Line
  <2>3. s[j][1] = i /\ s[k][1] = i /\ s[j][2] # NOPTS /\ s[k][2] # NOPTS BY <2>1
  <2>4. s[j][2] < s[k][2] BY <2>1, <2>2, <2>3
  <2> QED BY <2>1, <2>4
<1>9. ASSUME NEW n \in a + 1 .. b PROVE \E j \in 1 .. l + 1 : r[j] = <<i, n>>
  <2>1. PICK j \in 1 .. l : s[j] = <<i, n>> BY <1>1 DEF Line
  <2>2. j \in 1 .. l + 1 /\ r[j] = <<i, n>> BY <1>3, <1>5, <2>1
  <2> QED BY <2>2
<1>10. Line(r, i, a, b) BY <1>3, <1>7, <1>8, <1>9 DEF Line
<1> QED BY <1>2, <1>10

LEMMA RestAt ==
    ASSUME NEW A, NEW s \in Seq(A), NEW p \in DOMAIN s
    PROVE  \E l \in Nat : /\ l = Len(s) /\ DOMAIN s = 1 .. l /\ p \in 1 .. l
                          /\ DOMAIN SubSeq(s, p + 1, Len(s)) = 1 .. l - p
                          /\ \A j \in 1 .. l - p : SubSeq(s, p + 1, Len(s))[j] = s[p + j]
<1>1. PICK l \in Nat : l = Len(s) /\ DOMAIN s = 1 .. l OBVIOUS
<1>2. p \in 1 .. l BY <1>1
<1>3. SubSeq(s, p + 1, l) = [j \in 1 .. l - p |-> s[p + j]]
  <2>1. SubSeq(s, p + 1, l) = [j \in 1 .. (1 + l - (p + 1)) |-> s[j + (p + 1) - 1]]
    BY <1>1, <1>2
  <2>2. 1 + l - (p + 1) = l - p BY <1>2
  <2>3. \A j \in 1 .. l - p : j + (p + 1) - 1 = p + j BY <1>2
  <2> QED BY <2>1, <2>2, <2>3
<1> QED BY <1>1, <1>2, <1>3

LEMMA Shift ==
    ASSUME NEW l \in Nat, NEW p \in 1 .. l
    PROVE  /\ \A j \in 1 .. l - p : p + j \in 1 .. l /\ p < p + j
           /\ \A j, k \in 1 .. l - p : j < k => p + j < p + k
           /\ \A j \in 1 .. l : j < p \/ j = p \/ (j - p \in 1 .. l - p /\ p + (j - p) = j /\ p < j)
           /\ \A j \in 1 .. l : j <= p <=> ~ (p < j)
           /\ \A j \in 1 .. l : j < p \/ j = p => j <= p
OBVIOUS

(* The items up to p are taken away, of which none counts for stream i.    *)
LEMMA LineDrop ==
    ASSUME NEW I, NEW s \in Seq(I \X Nat), NEW i, NEW a \in Nat, NEW b \in Nat, Line(s, i, a, b), NEW p \in DOMAIN s,
           \A j \in DOMAIN s : j <= p => s[j][1] # i \/ s[j][2] = NOPTS
    PROVE  Line(SubSeq(s, p + 1, Len(s)), i, a, b)
<1>1. PICK l \in Nat : /\ DOMAIN s = 1 .. l /\ p \in 1 .. l
                       /\ DOMAIN SubSeq(s, p + 1, Len(s)) = 1 .. l - p
                       /\ \A j \in 1 .. l - p : SubSeq(s, p + 1, Len(s))[j] = s[p + j]
  BY RestAt
<1>2. PICK r : r = SubSeq(s, p + 1, Len(s)) OBVIOUS
<1>3. DOMAIN r = 1 .. l - p BY <1>1, <1>2
<1>3a. \A j \in 1 .. l - p : r[j] = s[p + j] BY <1>1, <1>2, Zenon
<1>4. \A j \in 1 .. l - p : p + j \in 1 .. l BY <1>1, Shift
<1>5. \A j \in 1 .. l : j <= p \/ (j - p \in 1 .. l - p /\ p + (j - p) = j) BY <1>1, Shift
<1>6. ASSUME NEW j \in 1 .. l - p, r[j][1] = i, r[j][2] # NOPTS PROVE r[j][2] \in a + 1 .. b
  <2>1. PICK q \in 1 .. l : q = p + j /\ r[j] = s[q] BY <1>3a, <1>4
  <2> QED BY <1>1, <1>6, <2>1 DEF Line
<1>7. ASSUME NEW j \in 1 .. l - p, NEW k \in 1 .. l - p, j < k,
             r[j][1] = i, r[k][1] = i, r[j][2] # NOPTS, r[k][2] # NOPTS
      PROVE  r[j][2] < r[k][2]
  <2>1. PICK q \in 1 .. l, u \in 1 .. l : q = p + j /\ u = p + k /\ r[j] = s[q] /\ r[k] = s[u]
    BY <1>3a, <1>4
  <2>2. q < u BY <1>1, <1>7, <2>1, Shift
  <2>3. s[q][1] = i /\ s[u][1] = i /\ s[q][2] # NOPTS /\ s[u][2] # NOPTS BY <1>7, <2>1
  <2>4. s[q][2] < s[u][2] BY <1>1, <2>2, <2>3 DEF Line
  <2> QED BY <2>1, <2>4
<1>8. ASSUME NEW n \in a + 1 .. b PROVE \E j \in 1 .. l - p : r[j] = <<i, n>>
  <2>1. PICK j \in 1 .. l : s[j] = <<i, n>> BY <1>1 DEF Line
  <2>2. n # NOPTS BY DEF NOPTS
  <2>3. s[j][1] = i /\ s[j][2] # NOPTS BY <2>1, <2>2
  <2>4. ~ (j <= p) BY <1>1, <2>3
  <2>5. j - p \in 1 .. l - p /\ r[j - p] = s[j] BY <1>3a, <1>5, <2>4
  <2> QED BY <2>1, <2>5
<1>9. a <= b BY DEF Line
<1>10. Line(r, i, a, b) BY <1>3, <1>6, <1>7, <1>8, <1>9 DEF Line
<1> QED BY <1>2, <1>10

(* The first item of stream i is taken.                                    *)
LEMMA LineTake ==
    ASSUME NEW I, NEW s \in Seq(I \X Nat), NEW i, NEW a \in Nat, NEW b \in Nat, Line(s, i, a, b),
           NEW p \in DOMAIN s, s[p][1] = i, s[p][2] # NOPTS,
           \A j \in DOMAIN s : j < p => s[j][1] # i
    PROVE  s[p][2] = a + 1 /\ Line(SubSeq(s, p + 1, Len(s)), i, a + 1, b)
<1>1. PICK l \in Nat : /\ DOMAIN s = 1 .. l /\ p \in 1 .. l
                       /\ DOMAIN SubSeq(s, p + 1, Len(s)) = 1 .. l - p
                       /\ \A j \in 1 .. l - p : SubSeq(s, p + 1, Len(s))[j] = s[p + j]
  BY RestAt
<1>2. PICK r : r = SubSeq(s, p + 1, Len(s)) OBVIOUS
<1>3. DOMAIN r = 1 .. l - p BY <1>1, <1>2
<1>3a. \A j \in 1 .. l - p : r[j] = s[p + j] BY <1>1, <1>2, Zenon
<1>4. \A j \in 1 .. l - p : p + j \in 1 .. l /\ p < p + j BY <1>1, Shift
<1>5. \A j \in 1 .. l : j < p \/ j = p \/ (j - p \in 1 .. l - p /\ p + (j - p) = j /\ p < j) BY <1>1, Shift
<1>6. s[p][2] \in a + 1 .. b BY DEF Line
<1>7. a + 1 <= b /\ a + 1 \in a + 1 .. b BY <1>6
<1>8. \A j \in 1 .. l : s[j][1] = i /\ s[j][2] # NOPTS /\ p < j => s[p][2] < s[j][2] /\ s[j][2] \in a + 1 .. b
  BY <1>1 DEF Line
<1>9. s[p][2] = a + 1
  <2>1. PICK j \in 1 .. l : s[j] = <<i, a + 1>> BY <1>1, <1>7 DEF Line
  <2>2. s[j][1] = i /\ s[j][2] = a + 1 BY <2>1
  <2>3. a + 1 # NOPTS BY DEF NOPTS
  <2>4. ~ (j < p) BY <1>1, <2>2
  <2>5. ~ (p < j) BY <1>6, <1>8, <2>2, <2>3
  <2> QED BY <1>5, <2>2, <2>4, <2>5
<1>10. \A j \in 1 .. l - p : r[j][1] = i /\ r[j][2] # NOPTS => r[j][2] \in (a + 1) + 1 .. b
  <2> SUFFICES ASSUME NEW j \in 1 .. l - p, r[j][1] = i, r[j][2] # NOPTS
               PROVE  r[j][2] \in (a + 1) + 1 .. b
    OBVIOUS
  <2>1. r[j] = s[p + j] /\ p + j \in 1 .. l /\ p < p + j BY <1>3a, <1>4
  <2>2. a + 1 < r[j][2] /\ r[j][2] \in a + 1 .. b BY <1>8, <1>9, <2>1
  <2>3. \A v \in a + 1 .. b : a + 1 < v => v \in (a + 1) + 1 .. b OBVIOUS
  <2> QED BY <2>2, <2>3
<1>11. ASSUME NEW j \in 1 .. l - p, NEW k \in 1 .. l - p, j < k,
              r[j][1] = i, r[k][1] = i, r[j][2] # NOPTS, r[k][2] # NOPTS
       PROVE  r[j][2] < r[k][2]
  <2>1. PICK q \in 1 .. l, u \in 1 .. l : q = p + j /\ u = p + k /\ r[j] = s[q] /\ r[k] = s[u]
    BY <1>3a, <1>4
  <2>2. q < u BY <1>1, <1>11, <2>1, Shift
  <2>3. s[q][1] = i /\ s[u][1] = i /\ s[q][2] # NOPTS /\ s[u][2] # NOPTS BY <1>11, <2>1
  <2>4. s[q][2] < s[u][2] BY <1>1, <2>2, <2>3 DEF Line
  <2> QED BY <2>1, <2>4
<1>12. ASSUME NEW n \in (a + 1) + 1 .. b PROVE \E j \in 1 .. l - p : r[j] = <<i, n>>
  <2>1. n \in a + 1 .. b /\ n # a + 1 OBVIOUS
  <2>2. PICK j \in 1 .. l : s[j] = <<i, n>> BY <1>1, <2>1 DEF Line
  <2>3. s[j][1] = i /\ s[j][2] = n BY <2>2
  <2>4. ~ (j < p) BY <1>1, <2>3
  <2>5. j # p BY <1>9, <2>1, <2>3
  <2>6. j - p \in 1 .. l - p /\ r[j - p] = s[j] BY <1>3a, <1>5, <2>4, <2>5
  <2> QED BY <2>2, <2>6
<1>13. Line(r, i, a + 1, b) BY <1>3, <1>7, <1>10, <1>11, <1>12 DEF Line
<1> QED BY <1>2, <1>9, <1>13

(* Nothing of stream i is left.                                            *)
LEMMA LineEmpty ==
    ASSUME NEW s, NEW i, NEW a \in Nat, NEW b \in Nat, Line(s, i, a, b), \A j \in DOMAIN s : s[j][1] # i
    PROVE  Line(<<>>, i, a, b)
<1>1. \A n \in a + 1 .. b : FALSE
  <2> SUFFICES ASSUME NEW n \in a + 1 .. b PROVE FALSE OBVIOUS
  <2>1. PICK j \in DOMAIN s : s[j] = <<i, n>> BY DEF Line
  <2> QED BY <2>1
<1>2. DOMAIN <<>> = {} OBVIOUS
<1>3. a <= b BY DEF Line
<1> QED BY <1>1, <1>2, <1>3 DEF Line

-----------------------------------------------------------------------------
(* The packets and frames of a stream on their way.  taken[k] is the last  *)
(* item that the reader of port k has taken, Q[k] the last one that was    *)
(* put in its fifo.                                                        *)

(* Neither has the reader closed the port nor has it ended.                *)
Open(k) == ~ TqClosed(k) /\ ~ Ended(k[1])

(* What the source of port k has made for it, and what has left its list.  *)
Emitted(k) ==
    LET t == Src(k)
    IN  IF t \in Demux THEN nread[t][CHOOSE o \in DOMAIN Outs[t] : k \in Range(Outs[t][o])]
        ELSE IF t \in Filter THEN nout[t] ELSE taken[On(t)]
Passed(Q, k) == Q[k] + (IF k \in MuxStreams THEN Len(pre_mux_queue[k]) ELSE 0)

Fed(Q, k) ==
    /\ \A n \in Due(todo[Src(k)], k) : n = Passed(Q, k) + 1 /\ n = Emitted(k)
    /\ Due(todo[Src(k)], k) = {} /\ ~ Ended(Src(k)) => Emitted(k) = Passed(Q, k)

(* The pre-muxing queue goes on where the fifo ends.                       *)
Held(Q, k) ==
    k \in MuxStreams =>
        \A j \in DOMAIN pre_mux_queue[k] : pre_mux_queue[k][j] # NOPTS => pre_mux_queue[k][j] = Q[k] + j

InLine(Q, k) ==
    Open(k) => /\ Line(queue[k[1]].fifo, k[2], taken[k], Q[k])
               /\ Held(Q, k)
               /\ k \notin dst_finished => Fed(Q, k)

LineInv == /\ taken \in [Lined -> Nat]
           /\ \E Q \in [Lined -> Nat] : \A k \in Lined : InLine(Q, k)

(* The end mark of a stream is the last entry of its pre-muxing queue, a   *)
(* started muxer has none, and init_eof means that it has closed.          *)
Marks(k) ==
    /\ \A j \in DOMAIN pre_mux_queue[k] :
          pre_mux_queue[k][j] = NOPTS => k \in dst_finished /\ j = Len(pre_mux_queue[k])
    /\ k[1] \in mux_started => pre_mux_queue[k] = <<>>
    /\ k \in init_eof => TqClosed(k)
    /\ \A j \in DOMAIN queue[k[1]].fifo : queue[k[1]].fifo[j][2] # NOPTS
MarksInv == \A k \in MuxStreams : Marks(k)

(* What a list has in store changes only by the sends themselves.          *)
Steady(u, k) ==
    /\ Due(todo'[u], k) \subseteq Due(todo[u], k)
    /\ Due(todo'[u], k) = {} /\ ~ Exits(todo'[u]) => Due(todo[u], k) = {} /\ ~ Exits(todo[u])

LEMMA DueParts ==
    ASSUME NEW A, NEW s \in Seq(A), s # <<>>, NEW k
    PROVE  /\ Due(Tail(s), k) \subseteq Due(s, k)
           /\ IF Head(s).op = "send" /\ Head(s).ts # NOPTS /\ Head(s).k = k
                THEN Due(s, k) = Due(Tail(s), k) \cup {Head(s).ts}
                ELSE Due(s, k) = Due(Tail(s), k)
           /\ Exits(s) <=> Head(s).op = "exit" \/ Exits(Tail(s))
<1>1. \A o : o \in Range(s) <=> o = Head(s) \/ o \in Range(Tail(s)) BY TailParts
<1> QED BY <1>1 DEF Due, Items, Exits

LEMMA DueConcat ==
    ASSUME NEW A, NEW q \in Seq(A), NEW s \in Seq(A), \A o \in Range(q) : o.op \notin {"send", "exit"}, NEW k
    PROVE  Due(q \o s, k) = Due(s, k) /\ (Exits(q \o s) <=> Exits(s))
<1>1. \A o : o \in Range(q \o s) <=> o \in Range(q) \/ o \in Range(s) BY RangeConcat
<1>2. \A o \in Range(q) : o.op # "send" /\ o.op # "exit" OBVIOUS
<1>3. Items(q \o s) = Items(s) BY <1>1, <1>2 DEF Items
<1> QED BY <1>1, <1>2, <1>3 DEF Due, Exits

LEMMA GoesOnDue ==
    ASSUME TodoOK, NEW u \in Threads, GoesOn(u), NEW k
    PROVE  /\ Due(todo'[u], k) = Due(Tail(todo[u]), k)
           /\ Exits(todo'[u]) <=> Exits(todo[u])
<1>1. PICK q \in Seq(Ops(u)) : Mute(q) /\ todo'[u] = q \o Tail(todo[u]) BY DEF GoesOn
<1>2. todo[u] \in Seq(Ops(u)) /\ todo[u] # <<>> /\ Head(todo[u]).op # "exit" BY DEF GoesOn, TodoOK
<1>3. PICK r \in Seq(Ops(u)) : r = Tail(todo[u]) BY <1>2, TailType
<1>4. Due(q \o r, k) = Due(r, k) /\ (Exits(q \o r) <=> Exits(r)) BY <1>1, DueConcat DEF Mute, Loud
<1>5. Exits(todo[u]) <=> Exits(r) BY <1>2, <1>3, DueParts
<1> QED BY <1>1, <1>3, <1>4, <1>5

LEMMA EndedStays ==
    ASSUME TodoOK, NEW u \in Threads, Moves(u), Ended(u)
    PROVE  Exits(todo'[u])
BY GoesOnDue DEF Moves, Quiet, Ends, Rests, Begins, Ended

LEMMA QuietSteady ==
    ASSUME TodoOK, NEW u \in Threads, Quiet(u), NEW k,
           GoesOn(u) => ~ (Head(todo[u]).op = "send" /\ Head(todo[u]).ts # NOPTS /\ Head(todo[u]).k = k)
    PROVE  Steady(u, k)
<1>1. CASE todo'[u] = todo[u] BY <1>1 DEF Steady
<1>2. CASE GoesOn(u)
  <2>1. todo[u] \in Seq(Ops(u)) /\ todo[u] # <<>> BY <1>2 DEF GoesOn, TodoOK
  <2>2. PICK s \in Seq(Ops(u)) : s = todo[u] /\ s # <<>> BY <2>1
  <2>3. ~ (Head(s).op = "send" /\ Head(s).ts # NOPTS /\ Head(s).k = k) BY <1>2, <2>2
  <2>4. Due(Tail(s), k) = Due(s, k) BY <2>2, <2>3, DueParts
  <2> QED BY <1>2, <2>2, <2>4, GoesOnDue DEF Steady
<1>3. CASE Ends(u) BY <1>3 DEF Ends, Steady, Due
<1>4. CASE Rests(u) BY <1>4 DEF Rests, Begins, Steady, Due, Ended
<1> QED BY <1>1, <1>2, <1>3, <1>4 DEF Quiet

(* The send of an item was the only one to its port.                       *)
LEMMA SentDue ==
    ASSUME TodoOK, ListInv, NEW u \in Threads, GoesOn(u),
           Head(todo[u]).op = "send", Head(todo[u]).ts # NOPTS
    PROVE  /\ Due(todo[u], Head(todo[u]).k) = {Head(todo[u]).ts}
           /\ Due(todo'[u], Head(todo[u]).k) = {}
<1>1. PICK h : h = Head(todo[u]) OBVIOUS
<1>2. todo[u] \in Seq(Ops(u)) /\ todo[u] # <<>> BY DEF GoesOn, TodoOK
<1>3. Apart(todo[u]) BY DEF ListInv
<1>4. \A o \in Range(Tail(todo[u])) : ~ Clash(h, o) BY <1>1, <1>2, <1>3, TailParts
<1>5. \A o \in Range(Tail(todo[u])) : o.op = "send" /\ o.ts # NOPTS => o.k # h.k
  BY <1>1, <1>4 DEF Clash
<1>6. Due(Tail(todo[u]), h.k) = {} BY <1>5 DEF Due, Items
<1>7. Due(todo[u], h.k) = Due(Tail(todo[u]), h.k) \cup {h.ts} BY <1>1, <1>2, DueParts
<1>8. Due(todo'[u], h.k) = Due(Tail(todo[u]), h.k) BY GoesOnDue
<1> QED BY <1>1, <1>6, <1>7, <1>8

-----------------------------------------------------------------------------
(* What a step leaves as it is.                                            *)
Keeps == \A c \in Consumers : queue'[c].fifo = queue[c].fifo /\ queue[c].recv \subseteq queue'[c].recv
Grows ==
    /\ \A c \in Consumers : queue[c].recv \subseteq queue'[c].recv
    /\ dst_finished \subseteq dst_finished'
    /\ \A u \in Threads : Ended(u) => Exits(todo'[u])

LEMMA QueueKeeps ==
    ASSUME QueueOK, NEW t, NEW S, NEW k, NEW d, NEW v,
           \/ queue' = queue
           \/ queue' = TqSendFinish(queue, t, S) \/ queue' = TqReceiveFinish(queue, t, S)
           \/ queue' = TqSendEOF(k) \/ queue' = ChokeDemux(d, v)
    PROVE  Keeps
<1> SUFFICES ASSUME NEW c \in Consumers
             PROVE  queue'[c].fifo = queue[c].fifo /\ queue[c].recv \subseteq queue'[c].recv
  BY DEF Keeps
<1>1. /\ DOMAIN queue = Consumers
      /\ queue[c] = [fifo |-> queue[c].fifo, choked |-> queue[c].choked,
                     send |-> queue[c].send, recv |-> queue[c].recv]
  BY DEF QueueOK, Queues
<1>2. CASE queue' = queue BY <1>2
<1>3. CASE queue' = TqSendFinish(queue, t, S) BY <1>1, <1>3 DEF TqSendFinish
<1>4. CASE queue' = TqReceiveFinish(queue, t, S) BY <1>1, <1>4 DEF TqReceiveFinish
<1>5. CASE queue' = TqSendEOF(k) BY <1>1, <1>5 DEF TqSendEOF
<1>6. CASE queue' = ChokeDemux(d, v) BY <1>1, <1>6 DEF ChokeDemux
<1> QED BY <1>2, <1>3, <1>4, <1>5, <1>6

LEMMA OpenBefore ==
    ASSUME Grows, NEW k \in Lined, Open(k)'
    PROVE  Open(k)
<1>1. k[1] \in Consumers /\ k[1] \in Threads BY LinedIs
<1> QED BY <1>1 DEF Open, Grows, TqClosed, Ended

LEMMA FedNext ==
    ASSUME NEW Q, NEW k, NEW t, t = Src(k)
    PROVE  Fed(Q, k)' <=>
             /\ \A n \in Due(todo'[t], k) : n = Passed(Q, k)' + 1 /\ n = Emitted(k)'
             /\ Due(todo'[t], k) = {} /\ ~ Exits(todo'[t]) => Emitted(k)' = Passed(Q, k)'
<1>1. Src(k)' = t BY SameSource
<1> QED BY <1>1 DEF Fed, Ended

LEMMA EmittedNext ==
    ASSUME NEW k, NEW t, t = Src(k)
    PROVE  Emitted(k)' =
             IF t \in Demux THEN nread'[t][CHOOSE o \in DOMAIN Outs[t] : k \in Range(Outs[t][o])]
             ELSE IF t \in Filter THEN nout'[t] ELSE taken'[On(t)]
<1>1. Src(k)' = t BY SameSource
<1> QED BY <1>1 DEF Emitted

LEMMA EmittedSame ==
    ASSUME NEW k \in Lined, nread' = nread, nout' = nout,
           Src(k) \in Decoders \cup Encoders => taken'[On(Src(k))] = taken[On(Src(k))]
    PROVE  Emitted(k)' = Emitted(k)
<1>1. PICK t : t = Src(k) OBVIOUS
<1>2. t \in Producers BY <1>1, LinedIs
<1>3. t \in Demux \/ t \in Filter \/ t \in Decoders \cup Encoders BY <1>2 DEF Producers
<1> QED BY <1>1, <1>3, EmittedNext DEF Emitted

LEMMA FedSteady ==
    ASSUME NEW Q, NEW R, NEW k \in Lined, Fed(Q, k), Steady(Src(k), k),
           Emitted(k)' = Emitted(k), Passed(R, k)' = Passed(Q, k)
    PROVE  Fed(R, k)'
<1>1. PICK t : t = Src(k) OBVIOUS
<1> HIDE <1>1
<1>2. Steady(t, k) BY <1>1
<1>3. /\ \A n \in Due(todo[t], k) : n = Passed(Q, k) + 1 /\ n = Emitted(k)
      /\ Due(todo[t], k) = {} /\ ~ Exits(todo[t]) => Emitted(k) = Passed(Q, k)
  BY <1>1 DEF Fed, Ended
<1> QED BY <1>1, <1>2, <1>3, FedNext DEF Steady

(* Nothing happens to the items of port k.                                 *)
LEMMA PassedSame ==
    ASSUME NEW Q, NEW R, NEW k, R[k] = Q[k], k \in MuxStreams => pre_mux_queue'[k] = pre_mux_queue[k]
    PROVE  Passed(R, k)' = Passed(Q, k) /\ (Held(Q, k) => Held(R, k)')
BY DEF Passed, Held

LEMMA InLineStays ==
    ASSUME NEW Q, NEW k \in Lined, InLine(Q, k), Grows,
           queue'[k[1]].fifo = queue[k[1]].fifo, nread' = nread, nout' = nout, taken' = taken,
           k \in MuxStreams => pre_mux_queue'[k] = pre_mux_queue[k],
           Open(k)' /\ k \notin dst_finished' => Steady(Src(k), k)
    PROVE  InLine(Q, k)'
<1>2. ASSUME Open(k)'
      PROVE  /\ Line(queue'[k[1]].fifo, k[2], taken'[k], Q[k])
             /\ Held(Q, k)'
             /\ k \notin dst_finished' => Fed(Q, k)'
  <2>1. Open(k) BY <1>2, OpenBefore
  <2>2. Line(queue[k[1]].fifo, k[2], taken[k], Q[k]) /\ Held(Q, k) /\ (k \notin dst_finished => Fed(Q, k))
    BY <2>1 DEF InLine
  <2>3. Passed(Q, k)' = Passed(Q, k) /\ Held(Q, k)' BY <2>2, PassedSame
  <2>4. Emitted(k)' = Emitted(k) BY EmittedSame
  <2>5. k \notin dst_finished' => k \notin dst_finished BY DEF Grows
  <2> QED BY <1>2, <2>2, <2>3, <2>4, <2>5, FedSteady
<1> QED BY <1>2 DEF InLine

LEMMA StaysInLine ==
    ASSUME LineInv, Grows, \A c \in Readers : queue'[c].fifo = queue[c].fifo,
           nread' = nread, nout' = nout, pre_mux_queue' = pre_mux_queue, taken' = taken,
           \A k \in Lined : Open(k)' /\ k \notin dst_finished' => Steady(Src(k), k)
    PROVE  LineInv'
<1>1. PICK Q \in [Lined -> Nat] : \A k \in Lined : InLine(Q, k) BY DEF LineInv
<1>2. \A k \in Lined : k[1] \in Readers BY LinedIs
<1>3. \A k \in Lined : InLine(Q, k)' BY <1>1, <1>2, InLineStays
<1> QED BY <1>3 DEF LineInv

LEMMA QuietGrows ==
    ASSUME TodoOK, \A u \in Threads : Moves(u), dst_finished \subseteq dst_finished',
           \A c \in Consumers : queue[c].recv \subseteq queue'[c].recv
    PROVE  Grows
BY EndedStays DEF Grows

(* The marks stay with the pre-muxing queues.                              *)
LEMMA MarkStays ==
    ASSUME NEW k \in MuxStreams, Marks(k), k \in dst_finished => k \in dst_finished',
           TqClosed(k) => k[2] \in queue'[k[1]].recv,
           pre_mux_queue'[k] = pre_mux_queue[k], k[1] \in mux_started' => k[1] \in mux_started,
           k \in init_eof' => k \in init_eof,
           \A j \in DOMAIN queue'[k[1]].fifo : queue'[k[1]].fifo[j][2] # NOPTS
    PROVE  Marks(k)'
BY DEF Marks, TqClosed

LEMMA MarksStay ==
    ASSUME MarksInv, dst_finished \subseteq dst_finished',
           \A c \in Muxers : /\ queue[c].recv \subseteq queue'[c].recv
                             /\ \A j \in DOMAIN queue'[c].fifo : \E i \in DOMAIN queue[c].fifo :
                                   queue'[c].fifo[j] = queue[c].fifo[i],
           pre_mux_queue' = pre_mux_queue, mux_started' = mux_started, init_eof' = init_eof
    PROVE  MarksInv'
<1> SUFFICES ASSUME NEW k \in MuxStreams PROVE Marks(k)' BY DEF MarksInv
<1>1. k[1] \in Muxers BY PortIs DEF MuxStreams
<1>2. Marks(k) BY DEF MarksInv
<1>3. \A j \in DOMAIN queue[k[1]].fifo : queue[k[1]].fifo[j][2] # NOPTS BY <1>2 DEF Marks
<1>4. TqClosed(k) => k[2] \in queue'[k[1]].recv BY <1>1 DEF TqClosed
<1>5. \A j \in DOMAIN queue'[k[1]].fifo : queue'[k[1]].fifo[j][2] # NOPTS BY <1>1, <1>3
<1> QED BY <1>2, <1>4, <1>5, MarkStays

-----------------------------------------------------------------------------
(* A fifo at the calls of its ThreadQueue.                                 *)
LEMMA FifoType ==
    ASSUME QueueOK, NEW c \in Consumers
    PROVE  /\ queue[c].fifo \in Seq(Inputs(c) \X Nat) /\ DOMAIN queue = Consumers
           /\ queue[c] = [fifo |-> queue[c].fifo, choked |-> queue[c].choked,
                          send |-> queue[c].send, recv |-> queue[c].recv]
BY DEF QueueOK, Queues

LEMMA FifoIs ==
    ASSUME QueueOK
    PROVE  /\ DOMAIN queue = Consumers
           /\ \A c \in Consumers : queue[c] = [fifo |-> queue[c].fifo, choked |-> queue[c].choked,
                                             send |-> queue[c].send, recv |-> queue[c].recv]
<1>1. DOMAIN queue = Consumers BY DEF QueueOK
<1>2. ASSUME NEW c \in Consumers
      PROVE  queue[c] = [fifo |-> queue[c].fifo, choked |-> queue[c].choked,
                         send |-> queue[c].send, recv |-> queue[c].recv]
  BY FifoType
<1> QED BY <1>1, <1>2

LEMMA WriteIs ==
    ASSUME QueueOK, NEW k \in Ports(Consumers), NEW n, queue' = TqWrite(k, n)
    PROVE  /\ queue'[k[1]].fifo = Append(queue[k[1]].fifo, <<k[2], n>>)
           /\ \A c \in Consumers : queue'[c].recv = queue[c].recv
           /\ \A c \in Consumers \ {k[1]} : queue'[c].fifo = queue[c].fifo
<1>1. k[1] \in Consumers BY PortIs
<1>2. PICK s : s = Append(queue[k[1]].fifo, <<k[2], n>>) OBVIOUS
<1>3. queue' = [queue EXCEPT ![k[1]].fifo = s] BY <1>2 DEF TqWrite
<1>4. PICK d \in Consumers : d = k[1] BY <1>1
<1>5. queue' = [queue EXCEPT ![d].fifo = s] BY <1>3, <1>4
<1>6. queue'[d].fifo = s BY <1>5, FifoIs
<1>7. \A c \in Consumers : queue'[c].recv = queue[c].recv BY <1>5, FifoIs
<1>8. \A c \in Consumers \ {d} : queue'[c].fifo = queue[c].fifo BY <1>5, FifoIs
<1> QED BY <1>2, <1>4, <1>6, <1>7, <1>8

LEMMA ReadIs ==
    ASSUME QueueOK, NEW t, Reads(t)
    PROVE  \E p \in DOMAIN queue[t].fifo :
             /\ TqItem(t) = queue[t].fifo[p] /\ queue[t].fifo[p][1] \notin queue[t].recv
             /\ \A j \in DOMAIN queue[t].fifo : j < p => queue[t].fifo[j][1] \in queue[t].recv
             /\ queue'[t].fifo = SubSeq(queue[t].fifo, p + 1, Len(queue[t].fifo))
             /\ \A c \in Consumers : queue'[c].recv = queue[c].recv
             /\ \A c \in Consumers \ {t} : queue'[c].fifo = queue[c].fifo
<1>1. t \in Consumers /\ TqWanted(t) # {} /\ queue' = TqAfterItem(t) BY DEF Reads, TqHasItem
<1>2. PICK s \in Seq(Inputs(t) \X Nat) : s = queue[t].fifo BY <1>1, FifoType
<1>3. DOMAIN s \subseteq Nat BY <1>2
<1>4. TqWanted(t) \subseteq Nat BY <1>2, <1>3 DEF TqWanted
<1>5. PICK p : p = Min(TqWanted(t)) OBVIOUS
<1>6. p \in TqWanted(t) /\ \A j \in TqWanted(t) : p <= j BY <1>1, <1>4, <1>5, Least
<1>7. p \in DOMAIN s /\ s[p][1] \notin queue[t].recv BY <1>2, <1>6 DEF TqWanted
<1>8. ASSUME NEW j \in DOMAIN s, j < p PROVE s[j][1] \in queue[t].recv
  <2>1. ~ (p <= j) BY <1>3, <1>7, <1>8
  <2>2. j \notin TqWanted(t) BY <1>6, <2>1
  <2> QED BY <1>2, <2>2 DEF TqWanted
<1>9. PICK r : r = SubSeq(s, p + 1, Len(s)) OBVIOUS
<1>10. queue' = [queue EXCEPT ![t].fifo = r] BY <1>1, <1>2, <1>5, <1>9 DEF TqAfterItem
<1>11. /\ queue'[t].fifo = r
       /\ \A c \in Consumers : queue'[c].recv = queue[c].recv
       /\ \A c \in Consumers \ {t} : queue'[c].fifo = queue[c].fifo
  BY <1>1, <1>10, FifoIs
<1>12. TqItem(t) = s[p] BY <1>2, <1>5 DEF TqItem
<1> QED BY <1>2, <1>7, <1>8, <1>9, <1>11, <1>12

LEMMA DrainIs ==
    ASSUME QueueOK, NEW t, Drains(t)
    PROVE  /\ t \in Consumers /\ queue'[t].fifo = <<>>
           /\ \A j \in DOMAIN queue[t].fifo : queue[t].fifo[j][1] \in queue[t].recv
           /\ \A c \in Consumers : queue[c].recv \subseteq queue'[c].recv
           /\ \A c \in Consumers \ {t} : queue'[c].fifo = queue[c].fifo
<1>1. t \in Consumers /\ TqWanted(t) = {} BY DEF Drains, TqDrained
<1>2. \A j \in DOMAIN queue[t].fifo : queue[t].fifo[j][1] \in queue[t].recv BY <1>1 DEF TqWanted
<1>3. CASE queue' = TqAfterEOF(t)
  <2>1. PICK r : r = queue[t].recv \cup {Min(TqEofPending(t))} OBVIOUS
  <2>2. queue' = [queue EXCEPT ![t].fifo = <<>>, ![t].recv = r] BY <1>3, <2>1 DEF TqAfterEOF
  <2>3. queue'[t].fifo = <<>> BY <1>1, <2>2, FifoIs
  <2>4. \A c \in Consumers : queue[c].recv \subseteq queue'[c].recv BY <1>1, <2>1, <2>2, FifoIs
  <2>5. \A c \in Consumers \ {t} : queue'[c].fifo = queue[c].fifo BY <1>1, <2>2, FifoIs
  <2> QED BY <1>1, <1>2, <2>3, <2>4, <2>5
<1>4. CASE queue' = [queue EXCEPT ![t].fifo = <<>>]
  BY <1>1, <1>2, <1>4, FifoIs
<1> QED BY <1>3, <1>4 DEF Drains, TqDiscard

(* Some item is put in the fifo that has nothing to do with the line, or   *)
(* the next one of it.                                                     *)
LEMMA WriteLine ==
    ASSUME QueueOK, NEW r \in Ports(Consumers), NEW n \in Nat, queue' = TqWrite(r, n),
           NEW k \in Lined, NEW a \in Nat, NEW b \in Nat, Line(queue[k[1]].fifo, k[2], a, b)
    PROVE  /\ k # r \/ n = NOPTS => Line(queue'[k[1]].fifo, k[2], a, b)
           /\ k = r /\ n = b + 1 => Line(queue'[k[1]].fifo, k[2], a, n)
<1>1. r = <<r[1], r[2]>> /\ r[1] \in Consumers /\ r[2] \in Inputs(r[1]) BY PortIs
<1>2. k = <<k[1], k[2]>> /\ k[1] \in Consumers /\ k[2] \in Inputs(k[1]) BY LinedIs
<1>3. CASE k[1] # r[1]
  <2>1. queue'[k[1]].fifo = queue[k[1]].fifo BY <1>2, <1>3, WriteIs
  <2> QED BY <1>3, <2>1
<1>4. CASE k[1] = r[1]
  <2>1. PICK I : I = Inputs(r[1]) OBVIOUS
  <2>2. PICK s \in Seq(I \X Nat) : s = queue[r[1]].fifo BY <1>1, <2>1, FifoType
  <2>3. queue'[r[1]].fifo = Append(s, <<r[2], n>>) BY <2>2, WriteIs
  <2>4. PICK x \in I \X Nat : x = <<r[2], n>> BY <1>1, <2>1
  <2>5. x[1] = r[2] /\ x[2] = n BY <2>4
  <2>6. Line(s, k[2], a, b) /\ k[2] \in I BY <1>2, <1>4, <2>1, <2>2
  <2>7. ASSUME k # r \/ n = NOPTS PROVE Line(Append(s, x), k[2], a, b)
    <3>1. x[1] # k[2] \/ x[2] = NOPTS BY <1>1, <1>2, <1>4, <2>5, <2>7
    <3>2. PICK A : A = I \X Nat OBVIOUS
    <3>3. s \in Seq(A) /\ x \in A BY <3>2
    <3> QED BY <2>6, <3>1, <3>3, LineOther
  <2>8. ASSUME k = r, n = b + 1 PROVE Line(Append(s, x), k[2], a, n)
    <3>1. x = <<k[2], b + 1>> BY <2>4, <2>8
    <3> QED BY <2>6, <2>8, <3>1, LineAppend
  <2> QED BY <1>4, <2>3, <2>4, <2>7, <2>8
<1> QED BY <1>3, <1>4

LEMMA ReadLine ==
    ASSUME QueueOK, NEW t, Reads(t), NEW k \in Lined, ~ TqClosed(k),
           NEW a \in Nat, NEW b \in Nat, Line(queue[k[1]].fifo, k[2], a, b)
    PROVE  IF k = <<t, TqItem(t)[1]>> /\ TqItem(t)[2] # NOPTS
             THEN TqItem(t)[2] = a + 1 /\ Line(queue'[k[1]].fifo, k[2], a + 1, b)
             ELSE Line(queue'[k[1]].fifo, k[2], a, b)
<1>1. k = <<k[1], k[2]>> /\ k[1] \in Consumers /\ k[2] \in Inputs(k[1]) BY LinedIs
<1>2. CASE k[1] # t
  <2>1. queue'[k[1]].fifo = queue[k[1]].fifo BY <1>1, <1>2, ReadIs
  <2>2. k # <<t, TqItem(t)[1]>> BY <1>2
  <2> QED BY <2>1, <2>2
<1>3. CASE k[1] = t
  <2>1. PICK I : I = Inputs(t) OBVIOUS
  <2>2. PICK s \in Seq(I \X Nat) : s = queue[t].fifo BY <1>1, <1>3, <2>1, FifoType
  <2>3. PICK p \in DOMAIN s :
             /\ TqItem(t) = s[p] /\ s[p][1] \notin queue[t].recv
             /\ \A j \in DOMAIN s : j < p => s[j][1] \in queue[t].recv
             /\ queue'[t].fifo = SubSeq(s, p + 1, Len(s))
    BY <2>2, ReadIs
  <2>4. Line(s, k[2], a, b) /\ k[2] \in I BY <1>1, <1>3, <2>1, <2>2
  <2>5. k[2] \notin queue[t].recv BY <1>3 DEF TqClosed
  <2>6. \A j \in DOMAIN s : j < p => s[j][1] # k[2] BY <2>3, <2>5
  <2>7. CASE s[p][1] = k[2] /\ s[p][2] # NOPTS
    <3>1. s[p][2] = a + 1 /\ Line(SubSeq(s, p + 1, Len(s)), k[2], a + 1, b)
      BY <2>4, <2>6, <2>7, LineTake
    <3>2. k = <<t, TqItem(t)[1]>> BY <1>1, <1>3, <2>3, <2>7
    <3> QED BY <1>3, <2>3, <2>7, <3>1, <3>2
  <2>8. CASE s[p][1] # k[2] \/ s[p][2] = NOPTS
    <3>1. \A j \in DOMAIN s : j <= p => j < p \/ j = p
      <4>1. DOMAIN s \subseteq Nat OBVIOUS
      <4> QED BY <4>1
    <3>2. \A j \in DOMAIN s : j <= p => s[j][1] # k[2] \/ s[j][2] = NOPTS BY <2>6, <2>8, <3>1
    <3>3. Line(SubSeq(s, p + 1, Len(s)), k[2], a, b) BY <2>4, <3>2, LineDrop
    <3>4. ~ (k = <<t, TqItem(t)[1]>> /\ TqItem(t)[2] # NOPTS) BY <1>1, <2>3, <2>8
    <3> QED BY <1>3, <2>3, <3>3, <3>4
  <2> QED BY <2>7, <2>8
<1> QED BY <1>2, <1>3

LEMMA DrainLine ==
    ASSUME QueueOK, NEW t, Drains(t), NEW k \in Lined, ~ TqClosed(k),
           NEW a \in Nat, NEW b \in Nat, Line(queue[k[1]].fifo, k[2], a, b)
    PROVE  Line(queue'[k[1]].fifo, k[2], a, b)
<1>1. k[1] \in Consumers BY LinedIs
<1>2. CASE k[1] # t
  <2>1. queue'[k[1]].fifo = queue[k[1]].fifo BY <1>1, <1>2, DrainIs
  <2> QED BY <2>1
<1>3. CASE k[1] = t
  <2>1. \A j \in DOMAIN queue[k[1]].fifo : queue[k[1]].fifo[j][1] # k[2] BY <1>3, DrainIs DEF TqClosed
  <2>2. queue'[k[1]].fifo = <<>> BY <1>3, DrainIs
  <2> QED BY <2>1, <2>2, LineEmpty
<1> QED BY <1>2, <1>3

-----------------------------------------------------------------------------
(* Steps that neither put an item in a fifo nor take one.                  *)
SendsTo(t, k) == Head(todo[t]).op = "send" /\ Head(todo[t]).ts # NOPTS /\ Head(todo[t]).k = k

LEMMA StepSteady ==
    ASSUME TodoOK, NEW t \in Threads, Quiet(t), \A u \in Producers \ {t} : todo'[u] = todo[u],
           NEW k \in Lined, GoesOn(t) => ~ SendsTo(t, k)
    PROVE  Steady(Src(k), k)
<1>1. PICK u \in Producers : u = Src(k) BY LinedIs
<1>2. CASE u = t
  <2>1. Steady(t, k) BY QuietSteady DEF SendsTo
  <2> QED BY <1>1, <1>2, <2>1
<1>3. CASE u # t
  <2>1. todo'[u] = todo[u] BY <1>3
  <2>2. Steady(u, k) BY <2>1 DEF Steady
  <2> QED BY <1>1, <2>2
<1> QED BY <1>2, <1>3

LEMMA KeepsMarks ==
    ASSUME QueueOK, MarksInv, dst_finished \subseteq dst_finished', Keeps,
           UNCHANGED <<pre_mux_queue, mux_started, init_eof>>
    PROVE  MarksInv'
<1>1. \A c \in Muxers : /\ queue[c].recv \subseteq queue'[c].recv
                        /\ \A j \in DOMAIN queue'[c].fifo : \E i \in DOMAIN queue[c].fifo :
                              queue'[c].fifo[j] = queue[c].fifo[i]
  BY DEF Keeps, Consumers
<1> QED BY <1>1, MarksStay

LEMMA KeepsInLine ==
    ASSUME TodoOK, QueueOK, LineInv, MarksInv, NEW t \in Threads, \A u \in Threads : Quiet(u),
           \A u \in Producers \ {t} : todo'[u] = todo[u],
           Keeps, dst_finished \subseteq dst_finished',
           UNCHANGED <<nread, nout, taken, pre_mux_queue, mux_started, init_eof>>,
           \A k \in Lined : Open(k)' /\ k \notin dst_finished' => (GoesOn(t) => ~ SendsTo(t, k))
    PROVE  LineInv' /\ MarksInv'
<1>1. Grows BY QuietMoves, QuietGrows DEF Keeps
<1>2. \A k \in Lined : Open(k)' /\ k \notin dst_finished' => Steady(Src(k), k) BY StepSteady
<1>3. \A c \in Readers : queue'[c].fifo = queue[c].fifo BY DEF Keeps, Readers, Consumers
<1>4. LineInv' BY <1>1, <1>2, <1>3, StaysInLine
<1> QED BY <1>4, KeepsMarks

LEMMA LockLine ==
    ASSUME IInv, TypeInv, LineInv, MarksInv, NEW t \in Threads, LockStep(t)
    PROVE  LineInv' /\ MarksInv'
<1>1. TodoOK /\ QueueOK BY DEF TypeInv, Typed
<1>2. \A u \in Threads : Quiet(u) BY LockMoves
<1>3. AtLock(t) /\ \A u \in Threads \ {t} : todo'[u] = todo[u] BY <1>1, LockHeld, OwnRestart
<1>4. \A u \in Producers \ {t} : todo'[u] = todo[u] BY <1>3 DEF Threads, Tasks
<1>5. Head(todo[t]).op # "send" BY <1>3 DEF AtLock, Locks
<1>6. UNCHANGED <<nread, nout, taken, pre_mux_queue, mux_started, init_eof>>
  BY DEF LockStep, ScheduleFirst, SetLastDts, SourceFinished, MuxDone, FilterSendFinished, FilterReceiveFinish,
         SetBestInput, TaskExited, ScheduleApply, SchedUnchanged, codecVars, muxVars
<1>7. dst_finished \subseteq dst_finished'
  BY DEF LockStep, ScheduleFirst, SetLastDts, SourceFinished, MuxDone, FilterSendFinished, FilterReceiveFinish,
         SetBestInput, TaskExited, ScheduleApply, SchedUnchanged
<1>8. \E c, S, d, v : \/ queue' = queue
                      \/ queue' = TqSendFinish(queue, c, S) \/ queue' = TqReceiveFinish(queue, c, S)
                      \/ queue' = ChokeDemux(d, v)
  BY DEF LockStep, ScheduleFirst, SetLastDts, SourceFinished, MuxDone, FilterSendFinished, FilterReceiveFinish,
         SetBestInput, TaskExited, ScheduleApply
<1>9. Keeps BY <1>1, <1>8, QueueKeeps
<1> QED BY <1>1, <1>2, <1>4, <1>5, <1>6, <1>7, <1>9, KeepsInLine DEF SendsTo

LEMMA OtherLine ==
    ASSUME TypeInv, LineInv, MarksInv, NEW t \in Threads, EndStep(t) \/ (t = Main /\ (MainStep \/ UserStops))
    PROVE  LineInv' /\ MarksInv'
<1>1. TodoOK /\ QueueOK BY DEF TypeInv, Typed
<1>2. \A u \in Threads : Quiet(u) BY OtherMoves
<1>3. Own(t) /\ (Idle(t) \/ \E n \in {"receive_close", "mux_count", "task_failed", "waiting", "receive", "emit",
                             "terminate", "stop_waiter", "unfreeze", "join", "join_mux"} : Next1(t, n))
  BY OtherOrder
<1>4. \A u \in Producers \ {t} : todo'[u] = todo[u] BY <1>3 DEF Own, Threads, Tasks
<1>5. GoesOn(t) => Head(todo[t]).op # "send" BY <1>3 DEF GoesOn, Idle, Next1
<1>6. UNCHANGED <<nread, nout, taken, pre_mux_queue, mux_started, init_eof>> /\ dst_finished' = dst_finished
  BY DEF EndStep, ReceiveClose, MuxCount, TaskFailed, MainStep, UserStops, SchWaitDone, SchStop, TaskStop,
         LoopUnchanged, MainUnchanged, codecVars, muxVars
<1>8. \E c, S, d, v : \/ queue' = queue
                      \/ queue' = TqSendFinish(queue, c, S) \/ queue' = TqReceiveFinish(queue, c, S)
                      \/ queue' = ChokeDemux(d, v)
  BY DEF EndStep, ReceiveClose, MuxCount, TaskFailed, MainStep, UserStops, SchWaitDone, SchStop, TaskStop
<1>9. Keeps BY <1>1, <1>8, QueueKeeps
<1> QED BY <1>1, <1>2, <1>4, <1>5, <1>6, <1>9, KeepsInLine DEF SendsTo

-----------------------------------------------------------------------------
(* Sending: what enters a fifo is next in its line.                        *)
LEMMA OpenLine ==
    ASSUME TypeInv, LineInv, MarksInv, NEW t \in Threads, EncOpen(t) \/ EncOpenFails(t)
    PROVE  LineInv' /\ MarksInv'
<1>1. TodoOK /\ QueueOK BY DEF TypeInv, Typed
<1>2. /\ UNCHANGED <<queue, dst_finished, nread, nout, taken>>
      /\ UNCHANGED <<pre_mux_queue, mux_started, init_eof>>
  BY DEF EncOpen, EncOpenFails, muxVars, codecVars
<1>3. \A u \in Producers \ {t} : todo'[u] = todo[u] BY SendAlone DEF SendStep
<1>4. ASSUME NEW k PROVE Steady(t, k) /\ (Ended(t) => Exits(todo'[t]))
  <2>1. CASE EncOpenFails(t)
    <3>1. t \in Tasks
      <4>1. Next1(t, "send") \/ Next1(t, "open") BY <2>1 DEF EncOpenFails, OpensBySending
      <4>2. Arg(t) \in Feeds(t) \/ Arg(t) \in Opens(t) BY <1>1, <4>1, HeadArg
      <4> QED BY <4>2, OpensIs DEF Feeds, Tasks
    <3>2. Exits(FailOps(t)) /\ Items(FailOps(t)) = {} BY <3>1, FailFresh DEF Items, Calm, Loud
    <3>3. todo'[t] = FailOps(t) BY <1>1, <2>1 DEF EncOpenFails, Restart, TodoOK
    <3>4. Due(todo'[t], k) = {} BY <3>2, <3>3 DEF Due
    <3> QED BY <3>2, <3>3, <3>4 DEF Steady
  <2>2. CASE EncOpen(t)
    <3>1. PICK e \in Encoders, n \in {"open", "send"} :
             /\ Next1(t, n)
             /\ Replace(t, ReadyOps(e) \o (IF n = "send" THEN <<Head(todo[t])>> ELSE <<>>))
      BY <1>1, <2>2, OpenIs
    <3>2. PICK q \in Seq(Ops(t)) : q = ReadyOps(e) BY ReadyType
    <3>3. \A o \in Range(q) : o.op \notin {"send", "exit"} BY <3>2, ReadyIs
    <3>4. PICK s \in Seq(Ops(t)) : s = todo[t] /\ s # <<>> /\ Head(s).op = n
      BY <1>1, <3>1 DEF TodoOK, Next1
    <3>5. PICK r \in Seq(Ops(t)) : r = Tail(s) BY <3>4, TailType
    <3>6. /\ Due(q \o s, k) = Due(s, k) /\ (Exits(q \o s) <=> Exits(s))
          /\ Due(q \o r, k) = Due(r, k) /\ (Exits(q \o r) <=> Exits(r))
      BY <3>3, DueConcat
    <3>7. n = "open" => Due(s, k) = Due(r, k) /\ (Exits(s) <=> Exits(r)) BY <3>4, <3>5, DueParts
    <3>8. todo'[t] = (q \o (IF n = "send" THEN <<Head(s)>> ELSE <<>>)) \o r
      BY <1>1, <3>1, <3>2, <3>4, <3>5 DEF Replace, TodoOK
    <3>9. todo'[t] = IF n = "send" THEN q \o s ELSE q \o r
      BY <3>4, <3>5, <3>8, HeadAndTail
    <3>10. Due(todo'[t], k) = Due(todo[t], k) /\ (Exits(todo'[t]) <=> Exits(todo[t]))
      BY <3>4, <3>6, <3>7, <3>9
    <3> QED BY <3>10 DEF Steady, Ended
  <2> QED BY <2>1, <2>2
<1>5. \A u \in Threads : Ended(u) => Exits(todo'[u])
  <2>1. \A u \in Threads \ {t} : todo'[u] = todo[u]
    BY <1>1, OwnRestart DEF EncOpen, EncOpenFails
  <2> QED BY <1>4, <2>1 DEF Ended
<1>6. Keeps BY <1>1, <1>2, QueueKeeps
<1>7. Grows BY <1>2, <1>5, <1>6 DEF Grows, Keeps
<1>8. \A k \in Lined : Steady(Src(k), k)
  <2> SUFFICES ASSUME NEW k \in Lined PROVE Steady(Src(k), k) OBVIOUS
  <2>1. PICK u \in Producers : u = Src(k) BY LinedIs
  <2>2. CASE u = t BY <1>4, <2>1, <2>2
  <2>3. CASE u # t
    <3>1. todo'[u] = todo[u] BY <1>3, <2>3
    <3>2. Steady(u, k) BY <3>1 DEF Steady
    <3> QED BY <2>1, <3>2
  <2> QED BY <2>2, <2>3
<1>9. LineInv' BY <1>2, <1>7, <1>8, StaysInLine
<1>10. MarksInv' BY <1>1, <1>2, <1>6, KeepsMarks
<1> QED BY <1>9, <1>10

LEMMA ReadyLine ==
    ASSUME TypeInv, LineInv, MarksInv, NEW t \in Threads, MuxStreamReady(t)
    PROVE  LineInv' /\ MarksInv'
<1>1. TodoOK /\ QueueOK BY DEF TypeInv, Typed
<1>2. /\ UNCHANGED <<queue, dst_finished, nread, nout, taken>>
      /\ UNCHANGED <<pre_mux_queue, mux_started, init_eof>>
  BY DEF MuxStreamReady, codecVars
<1>3. \A u \in Producers \ {t} : todo'[u] = todo[u] BY SendAlone DEF SendStep
<1>4. \A u \in Threads : Quiet(u) BY ReadyMoves
<1>5. Head(todo[t]).op # "send" BY DEF MuxStreamReady, Next1
<1>6. Keeps BY <1>1, <1>2, QueueKeeps
<1> QED BY <1>1, <1>2, <1>3, <1>4, <1>5, <1>6, KeepsInLine DEF SendsTo

(* What there is to show of port k when its counts may change.             *)
LEMMA InLineMoves ==
    ASSUME NEW Q, NEW R, NEW k \in Lined, InLine(Q, k), Grows,
           k \in MuxStreams => pre_mux_queue'[k] = pre_mux_queue[k],
           R[k] = Q[k],
           Open(k)' /\ Line(queue[k[1]].fifo, k[2], taken[k], Q[k]) => Line(queue'[k[1]].fifo, k[2], taken'[k], Q[k]),
           Open(k)' /\ k \notin dst_finished' /\ Fed(Q, k) => Fed(R, k)'
    PROVE  InLine(R, k)'
<1>1. ASSUME Open(k)'
      PROVE  /\ Line(queue'[k[1]].fifo, k[2], taken'[k], R[k])
             /\ Held(R, k)'
             /\ k \notin dst_finished' => Fed(R, k)'
  <2>1. Open(k) BY <1>1, OpenBefore
  <2>2. Line(queue[k[1]].fifo, k[2], taken[k], Q[k]) /\ Held(Q, k) /\ (k \notin dst_finished => Fed(Q, k))
    BY <2>1 DEF InLine
  <2>3. Held(R, k)' BY <2>2, PassedSame
  <2>4. k \notin dst_finished' => k \notin dst_finished BY DEF Grows
  <2>5. Line(queue'[k[1]].fifo, k[2], taken'[k], R[k]) BY <1>1, <2>2
  <2> QED BY <1>1, <2>2, <2>3, <2>4, <2>5
<1> QED BY <1>1 DEF InLine

LEMMA InLineKeeps ==
    ASSUME NEW Q, NEW R, NEW k \in Lined, InLine(Q, k), Grows,
           k \in MuxStreams => pre_mux_queue'[k] = pre_mux_queue[k],
           R[k] = Q[k],
           Open(k)' /\ Line(queue[k[1]].fifo, k[2], taken[k], Q[k]) => Line(queue'[k[1]].fifo, k[2], taken'[k], Q[k]),
           Open(k)' /\ k \notin dst_finished' => Steady(Src(k), k) /\ Emitted(k)' = Emitted(k)
    PROVE  InLine(R, k)'
<1>1. Passed(R, k)' = Passed(Q, k) BY PassedSame
<1>2. Open(k)' /\ k \notin dst_finished' /\ Fed(Q, k) => Fed(R, k)' BY <1>1, FedSteady
<1> QED BY <1>2, InLineMoves

LEMMA PreAppend ==
    ASSUME DataOK, NEW r \in MuxStreams, NEW n \in Nat,
           pre_mux_queue' = [pre_mux_queue EXCEPT ![r] = Append(@, n)]
    PROVE  /\ \A k \in MuxStreams \ {r} : pre_mux_queue'[k] = pre_mux_queue[k]
           /\ \E l \in Nat : /\ l = Len(pre_mux_queue[r]) /\ DOMAIN pre_mux_queue[r] = 1 .. l
                             /\ l + 1 = Len(pre_mux_queue'[r]) /\ DOMAIN pre_mux_queue'[r] = 1 .. l + 1
                             /\ \A j \in 1 .. l : pre_mux_queue'[r][j] = pre_mux_queue[r][j]
                             /\ pre_mux_queue'[r][l + 1] = n
<1>1. PICK s \in Seq(Nat) : s = pre_mux_queue[r] BY DEF DataOK
<1>2. pre_mux_queue'[r] = Append(s, n) BY <1>1 DEF DataOK
<1>3. /\ Len(s) \in Nat /\ DOMAIN s = 1 .. Len(s)
      /\ Len(s) + 1 = Len(Append(s, n)) /\ DOMAIN Append(s, n) = 1 .. Len(s) + 1
      /\ \A j \in 1 .. Len(s) : Append(s, n)[j] = s[j]
      /\ Append(s, n)[Len(s) + 1] = n
  OBVIOUS
<1>4. \A k \in MuxStreams \ {r} : pre_mux_queue'[k] = pre_mux_queue[k] BY DEF DataOK
<1> QED BY <1>1, <1>2, <1>3, <1>4

LEMMA FinishLine ==
    ASSUME TypeInv, LineInv, MarksInv, NEW t \in Threads, SendFinish(t)
    PROVE  LineInv' /\ MarksInv'
<1>1. TodoOK /\ QueueOK /\ DataOK BY DEF TypeInv, Typed
<1>2. UNCHANGED <<nread, nout, taken, mux_started, init_eof>>
  BY DEF SendFinish, SendUnchanged, codecVars
<1>3. \A u \in Producers \ {t} : todo'[u] = todo[u] BY SendAlone DEF SendStep
<1>4. \A u \in Threads : Quiet(u)
  <2>1. ~ EncOpen(t) BY DEF SendFinish, EncOpen, OpensBySending, Next1
  <2> QED BY <2>1, SendMoves DEF SendStep
<1>5. Next1(t, "finish") /\ Head(todo[t]).op # "send" BY DEF SendFinish, Next1
<1>6. PICK r \in Ports(Consumers) : r = Arg(t) BY <1>1, <1>5, HeadArg DEF Feeds
<1>7. dst_finished \subseteq dst_finished' BY DEF SendFinish
<1>8. CASE r \in dst_finished \/ ~ MuxHeld(r)
  <2>1. pre_mux_queue' = pre_mux_queue BY <1>6, <1>8 DEF SendFinish
  <2>2. queue' = queue \/ queue' = TqSendFinish(queue, r[1], {r[2]}) BY <1>6, <1>8 DEF SendFinish
  <2>3. Keeps BY <1>1, <2>2, QueueKeeps
  <2> QED BY <1>1, <1>2, <1>3, <1>4, <1>5, <1>7, <2>1, <2>3, KeepsInLine DEF SendsTo
<1>9. CASE r \notin dst_finished /\ MuxHeld(r)
  <2>1. /\ pre_mux_queue' = [pre_mux_queue EXCEPT ![r] = Append(@, NOPTS)] /\ queue' = queue
        /\ dst_finished' = dst_finished \cup {r}
    BY <1>6, <1>9 DEF SendFinish
  <2>2. r[1] \in Muxers /\ r[1] \notin mux_started BY <1>9 DEF MuxHeld
  <2>3. r \in MuxStreams /\ NOPTS \in Nat
    <3>1. r = <<r[1], r[2]>> /\ r[2] \in Inputs(r[1]) BY PortIs
    <3> QED BY <2>2, <3>1, IsPort DEF MuxStreams, NOPTS
  <2>4. \A k \in MuxStreams \ {r} : pre_mux_queue'[k] = pre_mux_queue[k] BY <1>1, <2>1, <2>3, PreAppend
  <2>5. PICK l \in Nat : /\ l = Len(pre_mux_queue[r]) /\ DOMAIN pre_mux_queue[r] = 1 .. l
                         /\ l + 1 = Len(pre_mux_queue'[r]) /\ DOMAIN pre_mux_queue'[r] = 1 .. l + 1
                         /\ \A j \in 1 .. l : pre_mux_queue'[r][j] = pre_mux_queue[r][j]
                         /\ pre_mux_queue'[r][l + 1] = NOPTS
    BY <1>1, <2>1, <2>3, PreAppend
  <2>6. \A j \in 1 .. l + 1 : j \in 1 .. l \/ j = l + 1 OBVIOUS
  <2>7. Keeps BY <1>1, <2>1, QueueKeeps
  <2>8. Grows BY <1>1, <1>4, <1>7, <2>7, QuietMoves, QuietGrows DEF Keeps
  <2>9. PICK Q \in [Lined -> Nat] : \A k \in Lined : InLine(Q, k) BY DEF LineInv
  <2>10. ASSUME NEW k \in Lined, k # r PROVE InLine(Q, k)'
    <3>1. Steady(Src(k), k) BY <1>1, <1>3, <1>4, <1>5, StepSteady DEF SendsTo
    <3> QED BY <1>2, <2>1, <2>4, <2>8, <2>9, <2>10, <3>1, InLineStays
  <2>11. InLine(Q, r)'
    <3>1. InLine(Q, r) /\ r \in Lined BY <2>3, <2>9, LinedIs
    <3>3. r \in dst_finished' BY <2>1
    <3>4. ASSUME Open(r)' PROVE Line(queue'[r[1]].fifo, r[2], taken'[r], Q[r]) /\ Held(Q, r)'
      <4>1. Open(r) BY <2>8, <3>1, <3>4, OpenBefore
      <4>2. Line(queue[r[1]].fifo, r[2], taken[r], Q[r]) /\ Held(Q, r) BY <3>1, <4>1 DEF InLine
      <4>3. \A j \in 1 .. l : pre_mux_queue[r][j] # NOPTS => pre_mux_queue[r][j] = Q[r] + j
        BY <2>3, <2>5, <4>2 DEF Held
      <4>4. \A j \in 1 .. l + 1 : pre_mux_queue'[r][j] # NOPTS => pre_mux_queue'[r][j] = Q[r] + j
        BY <2>5, <2>6, <4>3
      <4>5. Held(Q, r)' BY <2>5, <4>4 DEF Held
      <4> QED BY <1>2, <2>1, <4>2, <4>5
    <3> QED BY <3>3, <3>4 DEF InLine
  <2>12. LineInv'
    <3>1. \A k \in Lined : InLine(Q, k)' BY <2>10, <2>11
    <3> QED BY <1>2, <3>1 DEF LineInv
  <2>13. ASSUME NEW k \in MuxStreams, k # r PROVE Marks(k)'
    <3>1. Marks(k) BY DEF MarksInv
    <3>2. /\ TqClosed(k) => k[2] \in queue'[k[1]].recv
          /\ \A j \in DOMAIN queue'[k[1]].fifo : queue'[k[1]].fifo[j][2] # NOPTS
      BY <2>1, <3>1 DEF TqClosed, Marks
    <3> QED BY <1>2, <1>7, <2>4, <2>13, <3>1, <3>2, MarkStays
  <2>14. Marks(r)'
    <3>1. Marks(r) BY <2>3 DEF MarksInv
    <3>2. \A j \in 1 .. l : pre_mux_queue'[r][j] # NOPTS BY <1>9, <2>5, <3>1 DEF Marks
    <3>3. \A j \in DOMAIN pre_mux_queue'[r] :
             pre_mux_queue'[r][j] = NOPTS => r \in dst_finished' /\ j = Len(pre_mux_queue'[r])
      BY <2>1, <2>5, <2>6, <3>2
    <3>4. r \in init_eof' => TqClosed(r)' BY <1>2, <2>1, <3>1 DEF Marks, TqClosed
    <3>5. \A j \in DOMAIN queue'[r[1]].fifo : queue'[r[1]].fifo[j][2] # NOPTS BY <2>1, <3>1 DEF Marks
    <3> QED BY <1>2, <2>2, <3>3, <3>4, <3>5 DEF Marks
  <2>15. MarksInv' BY <2>13, <2>14 DEF MarksInv
  <2> QED BY <2>12, <2>15
<1> QED BY <1>8, <1>9

(* What a sender with an item for port r has in its list.                  *)
LEMMA SendsIs ==
    ASSUME TypeInv, ListInv, NEW t \in Threads, Next1(t, "send"), NEW r, r = Arg(t),
           NEW n, n = Head(todo[t]).ts
    PROVE  /\ r \in Feeds(t) /\ r \in Ports(Consumers) /\ t = Src(r) /\ n \in Nat
           /\ r[1] \in Muxers => r \in MuxStreams /\ n # NOPTS
           /\ \A k : SendsTo(t, k) => k = r /\ n # NOPTS
<1>1. TodoOK BY DEF TypeInv, Typed
<1>2. r \in Feeds(t) /\ n \in Nat BY <1>1, HeadArg
<1>3. r \in Ports(Consumers) /\ t \in Producers /\ r \in Dsts(t) BY <1>2 DEF Feeds
<1>4. t = Src(r) BY <1>3, SrcFeeds
<1>5. ASSUME r[1] \in Muxers PROVE r \in MuxStreams /\ n # NOPTS
  <2>1. r = <<r[1], r[2]>> /\ r[2] \in Inputs(r[1]) BY <1>3, PortIs
  <2>2. r \in MuxStreams BY <1>5, <2>1, IsPort DEF MuxStreams
  <2>3. PICK s \in Seq(Ops(t)) : s = todo[t] BY <1>1 DEF TodoOK
  <2>4. s # <<>> /\ Head(s).op = "send" /\ Head(s).k = r BY <2>3 DEF Next1, Arg
  <2>5. Head(s) \in Range(s) BY <2>4, TailParts
  <2>6. OpenOK(t, Head(s)) BY <2>3, <2>5 DEF ListInv
  <2> QED BY <2>2, <2>3, <2>4, <2>6 DEF OpenOK
<1>6. \A k : SendsTo(t, k) => k = r /\ n # NOPTS BY DEF SendsTo, Arg
<1> QED BY <1>2, <1>3, <1>4, <1>5, <1>6

(* The item goes to port r and is counted there.                           *)
LEMMA SentFed ==
    ASSUME TypeInv, ListInv, NEW t \in Threads, Send(t) \/ SendToPreMux(t), NEW r \in Lined, r = Arg(t),
           NEW n, n = Head(todo[t]).ts, n # NOPTS, NEW Q, Fed(Q, r)
    PROVE  /\ n = Passed(Q, r) + 1
           /\ \A R : n = Passed(R, r)' => Fed(R, r)'
<1>1. TodoOK BY DEF TypeInv, Typed
<1>2. Next1(t, "send") BY DEF Send, SendToPreMux
<1>3. t = Src(r) BY <1>2, SendsIs
<1>4. GoesOn(t) BY SendGoesOn
<1>5. Head(todo[t]).op = "send" /\ Head(todo[t]).k = r BY <1>2 DEF Next1, Arg
<1>6. Due(todo[t], r) = {n} /\ Due(todo'[t], r) = {} BY <1>1, <1>4, <1>5, SentDue
<1>7. n = Passed(Q, r) + 1 /\ n = Emitted(r) BY <1>3, <1>6 DEF Fed
<1>8. Emitted(r)' = Emitted(r)
  BY EmittedSame DEF Send, SendToPreMux, SendUnchanged, codecVars
<1>9. ASSUME NEW R, n = Passed(R, r)' PROVE Fed(R, r)'
  BY <1>3, <1>6, <1>7, <1>8, <1>9, FedNext
<1> QED BY <1>7, <1>9

LEMMA PreMuxLine ==
    ASSUME TypeInv, ListInv, LineInv, MarksInv, NEW t \in Threads, SendToPreMux(t)
    PROVE  LineInv' /\ MarksInv'
<1>1. TodoOK /\ QueueOK /\ DataOK BY DEF TypeInv, Typed
<1>2. UNCHANGED <<nread, nout, taken, mux_started, init_eof, queue, dst_finished>>
  BY DEF SendToPreMux, SendUnchanged, codecVars
<1>3. \A u \in Producers \ {t} : todo'[u] = todo[u] BY SendAlone DEF SendStep
<1>4. \A u \in Threads : Quiet(u) BY SendGoesOn
<1>5. PICK r, n : r = Arg(t) /\ n = Head(todo[t]).ts OBVIOUS
<1>6. /\ Next1(t, "send") /\ r \notin dst_finished /\ r[1] \in Muxers /\ r[1] \notin mux_started
      /\ pre_mux_queue' = [pre_mux_queue EXCEPT ![r] = Append(@, n)]
  BY <1>5 DEF SendToPreMux, QueuesForMux, MuxHeld
<1>7. /\ r \in MuxStreams /\ n \in Nat /\ n # NOPTS
      /\ \A k : SendsTo(t, k) => k = r
  BY <1>5, <1>6, SendsIs
<1>8. \A k \in MuxStreams \ {r} : pre_mux_queue'[k] = pre_mux_queue[k] BY <1>1, <1>6, <1>7, PreAppend
<1>9. PICK l \in Nat : /\ l = Len(pre_mux_queue[r]) /\ DOMAIN pre_mux_queue[r] = 1 .. l
                       /\ l + 1 = Len(pre_mux_queue'[r]) /\ DOMAIN pre_mux_queue'[r] = 1 .. l + 1
                       /\ \A j \in 1 .. l : pre_mux_queue'[r][j] = pre_mux_queue[r][j]
                       /\ pre_mux_queue'[r][l + 1] = n
  BY <1>1, <1>6, <1>7, PreAppend
<1>10. \A j \in 1 .. l + 1 : j \in 1 .. l \/ j = l + 1 OBVIOUS
<1>11. Keeps BY <1>1, <1>2, QueueKeeps
<1>12. Grows BY <1>1, <1>2, <1>4, <1>11, QuietMoves, QuietGrows DEF Keeps
<1>13. PICK Q \in [Lined -> Nat] : \A k \in Lined : InLine(Q, k) BY DEF LineInv
<1>14. ASSUME NEW k \in Lined, k # r PROVE InLine(Q, k)'
  <2>1. Steady(Src(k), k) BY <1>1, <1>3, <1>4, <1>7, <1>14, StepSteady
  <2> QED BY <1>2, <1>8, <1>12, <1>13, <1>14, <2>1, InLineStays
<1>15. InLine(Q, r)'
  <2>1. InLine(Q, r) /\ r \in Lined BY <1>7, <1>13, LinedIs
  <2>3. ASSUME Open(r)' PROVE Line(queue'[r[1]].fifo, r[2], taken'[r], Q[r]) /\ Held(Q, r)' /\ Fed(Q, r)'
    <3>1. Open(r) BY <1>12, <2>1, <2>3, OpenBefore
    <3>2. Line(queue[r[1]].fifo, r[2], taken[r], Q[r]) /\ Held(Q, r) /\ Fed(Q, r)
      BY <1>6, <2>1, <3>1 DEF InLine
    <3>3. n = Passed(Q, r) + 1 /\ (\A R : n = Passed(R, r)' => Fed(R, r)')
      BY <1>5, <1>7, <2>1, <3>2, SentFed
    <3>4. PICK q \in Nat : q = Q[r] BY <2>1
    <3>5. Passed(Q, r) = q + l /\ Passed(Q, r)' = q + (l + 1) BY <1>7, <1>9, <3>4 DEF Passed
    <3>6. n = q + (l + 1) BY <3>3, <3>5
    <3>7. Fed(Q, r)' BY <3>3, <3>5, <3>6
    <3>8. \A j \in 1 .. l : pre_mux_queue[r][j] # NOPTS => pre_mux_queue[r][j] = q + j
      BY <1>7, <1>9, <3>2, <3>4 DEF Held
    <3>9. \A j \in 1 .. l + 1 : pre_mux_queue'[r][j] # NOPTS => pre_mux_queue'[r][j] = q + j
      BY <1>9, <1>10, <3>6, <3>8
    <3>10. Held(Q, r)' BY <1>9, <3>4, <3>9 DEF Held
    <3> QED BY <1>2, <3>2, <3>7, <3>10
  <2> QED BY <2>3 DEF InLine
<1>16. LineInv'
  <2>1. \A k \in Lined : InLine(Q, k)' BY <1>14, <1>15
  <2> QED BY <1>2, <2>1 DEF LineInv
<1>17. ASSUME NEW k \in MuxStreams, k # r PROVE Marks(k)'
  <2>1. Marks(k) BY DEF MarksInv
  <2>2. /\ TqClosed(k) => k[2] \in queue'[k[1]].recv
        /\ \A j \in DOMAIN queue'[k[1]].fifo : queue'[k[1]].fifo[j][2] # NOPTS
    BY <1>2, <2>1 DEF TqClosed, Marks
  <2> QED BY <1>2, <1>8, <1>17, <2>1, <2>2, MarkStays
<1>18. Marks(r)'
  <2>1. Marks(r) BY <1>7 DEF MarksInv
  <2>2. \A j \in 1 .. l : pre_mux_queue'[r][j] # NOPTS BY <1>6, <1>9, <2>1 DEF Marks
  <2>3. \A j \in DOMAIN pre_mux_queue'[r] : pre_mux_queue'[r][j] # NOPTS BY <1>7, <1>9, <1>10, <2>2
  <2>4. r \in init_eof' => TqClosed(r)' BY <1>2, <2>1 DEF Marks, TqClosed
  <2>5. \A j \in DOMAIN queue'[r[1]].fifo : queue'[r[1]].fifo[j][2] # NOPTS BY <1>2, <2>1 DEF Marks
  <2> QED BY <1>2, <1>6, <2>3, <2>4, <2>5 DEF Marks
<1>19. MarksInv' BY <1>17, <1>18 DEF MarksInv
<1> QED BY <1>16, <1>19

(* tq_send() of the next item of a stream.                                 *)
LEMMA WrittenLine ==
    ASSUME TypeInv, ListInv, LineInv, MarksInv, NEW t \in Threads, Send(t), NEW r, r = Arg(t),
           NEW n, n = Head(todo[t]).ts, r \notin dst_finished, ~ MuxHeld(r), queue' = TqWrite(r, n)
    PROVE  LineInv' /\ MarksInv'
<1>1. TodoOK /\ QueueOK BY DEF TypeInv, Typed
<1>2. /\ UNCHANGED <<nread, nout, taken, dst_finished>>
      /\ UNCHANGED <<pre_mux_queue, mux_started, init_eof>>
  BY DEF Send, SendUnchanged, codecVars, muxVars
<1>3. \A u \in Producers \ {t} : todo'[u] = todo[u] BY SendAlone DEF SendStep
<1>4. \A u \in Threads : Quiet(u) BY SendGoesOn
<1>5. Next1(t, "send") BY DEF Send
<1>6. /\ r \in Ports(Consumers) /\ n \in Nat
      /\ r[1] \in Muxers => r \in MuxStreams /\ n # NOPTS
      /\ \A k : SendsTo(t, k) => k = r /\ n # NOPTS
  BY <1>5, SendsIs
<1>a. queue'[r[1]].fifo = Append(queue[r[1]].fifo, <<r[2], n>>) BY <1>1, <1>6, WriteIs, Zenon
<1>b. \A c \in Consumers : queue'[c].recv = queue[c].recv BY <1>1, <1>6, WriteIs, Zenon
<1>c. \A c \in Consumers \ {r[1]} : queue'[c].fifo = queue[c].fifo BY <1>1, <1>6, WriteIs, Zenon
<1>7. \A c \in Consumers : queue[c].recv \subseteq queue'[c].recv BY <1>b
<1>8. Grows BY <1>1, <1>2, <1>4, <1>7, QuietMoves, QuietGrows
<1>9. PICK Q \in [Lined -> Nat] : \A k \in Lined : InLine(Q, k) BY DEF LineInv
<1>10. PICK R \in [Lined -> Nat] : /\ \A k \in Lined : k # r \/ n = NOPTS => R[k] = Q[k]
                                   /\ r \in Lined /\ n # NOPTS => R[r] = n
  <2> DEFINE F == [k \in Lined |-> IF k = r /\ n # NOPTS THEN n ELSE Q[k]]
  <2>1. F \in [Lined -> Nat] BY <1>6
  <2>2. /\ \A k \in Lined : k # r \/ n = NOPTS => F[k] = Q[k]
        /\ r \in Lined /\ n # NOPTS => F[r] = n
    OBVIOUS
  <2> HIDE DEF F
  <2> QED BY <2>1, <2>2
<1>11. ASSUME NEW k \in Lined, k # r \/ n = NOPTS PROVE InLine(R, k)'
  <2>1. ~ SendsTo(t, k) BY <1>6, <1>11
  <2>2. Steady(Src(k), k) BY <1>1, <1>3, <1>4, <2>1, StepSteady
  <2>3. taken[k] \in Nat /\ Q[k] \in Nat BY DEF LineInv
  <2>4. Line(queue[k[1]].fifo, k[2], taken[k], Q[k]) => Line(queue'[k[1]].fifo, k[2], taken'[k], Q[k])
    BY <1>1, <1>2, <1>6, <1>11, <2>3, WriteLine
  <2>5. Emitted(k)' = Emitted(k) BY <1>2, EmittedSame
  <2>6. k \in MuxStreams => pre_mux_queue'[k] = pre_mux_queue[k] BY <1>2
  <2> QED BY <1>8, <1>9, <1>10, <1>11, <2>2, <2>4, <2>5, <2>6, InLineKeeps
<1>12. ASSUME r \in Lined, n # NOPTS PROVE InLine(R, r)'
  <2>1. InLine(Q, r) BY <1>9, <1>12
  <2>3. ASSUME Open(r)' PROVE Line(queue'[r[1]].fifo, r[2], taken'[r], R[r]) /\ Held(R, r)' /\ Fed(R, r)'
    <3>1. Open(r) BY <1>8, <1>12, <2>3, OpenBefore
    <3>2. Line(queue[r[1]].fifo, r[2], taken[r], Q[r]) /\ Fed(Q, r) BY <2>1, <3>1 DEF InLine
    <3>3. n = Passed(Q, r) + 1 /\ (n = Passed(R, r)' => Fed(R, r)')
      BY <1>12, <3>2, SentFed
    <3>4. r \in MuxStreams => pre_mux_queue[r] = <<>>
      <4>1. ASSUME r \in MuxStreams PROVE pre_mux_queue[r] = <<>>
        <5>1. r[1] \in Muxers BY <4>1, PortIs DEF MuxStreams
        <5>2. r[1] \in mux_started BY <5>1 DEF MuxHeld
        <5>3. Marks(r) BY <4>1 DEF MarksInv
        <5> QED BY <5>2, <5>3 DEF Marks
      <4> QED BY <4>1
    <3>5. Len(<<>>) = 0 /\ DOMAIN <<>> = {} OBVIOUS
    <3>6. taken[r] \in Nat /\ Q[r] \in Nat /\ R[r] = n BY <1>10, <1>12 DEF LineInv
    <3>7. Passed(Q, r) = Q[r] BY <3>4, <3>5, <3>6 DEF Passed
    <3>8. Passed(R, r)' = n
      <4>1. Passed(R, r)' = R[r] + (IF r \in MuxStreams THEN Len(pre_mux_queue'[r]) ELSE 0) BY DEF Passed
      <4> QED BY <1>2, <1>6, <3>4, <3>5, <3>6, <4>1
    <3>9. n = Q[r] + 1 BY <3>3, <3>7
    <3>10. Line(queue'[r[1]].fifo, r[2], taken[r], n) BY <1>1, <1>6, <1>12, <3>2, <3>6, <3>9, WriteLine
    <3>11. Held(R, r)' BY <1>2, <3>4, <3>5 DEF Held
    <3> QED BY <1>2, <3>3, <3>6, <3>8, <3>10, <3>11
  <2> QED BY <2>3 DEF InLine
<1>13. LineInv'
  <2>1. ASSUME NEW k \in Lined PROVE InLine(R, k)'
    <3>1. CASE k # r \/ n = NOPTS BY <1>11, <3>1
    <3>2. CASE k = r /\ n # NOPTS BY <1>12, <3>2
    <3> QED BY <3>1, <3>2
  <2> QED BY <1>2, <2>1 DEF LineInv
<1>14. MarksInv'
  <2> SUFFICES ASSUME NEW k \in MuxStreams PROVE Marks(k)' BY DEF MarksInv
  <2>1. Marks(k) /\ k \in Lined BY LinedIs DEF MarksInv
  <2>2. k[1] \in Muxers /\ k[1] \in Consumers BY PortIs DEF MuxStreams, Consumers
  <2>3. TqClosed(k) => k[2] \in queue'[k[1]].recv BY <1>b, <2>2 DEF TqClosed
  <2>4. \A j \in DOMAIN queue'[k[1]].fifo : queue'[k[1]].fifo[j][2] # NOPTS
    <3>1. CASE k[1] # r[1]
      <4>1. queue'[k[1]].fifo = queue[k[1]].fifo BY <1>c, <2>2, <3>1
      <4> QED BY <2>1, <4>1 DEF Marks
    <3>2. CASE k[1] = r[1]
      <4>1. n # NOPTS BY <1>6, <2>2, <3>2
      <4>2. PICK B : B = Inputs(k[1]) \X Nat OBVIOUS
      <4>3. PICK s \in Seq(B) : s = queue[k[1]].fifo BY <1>1, <2>2, <4>2, FifoType
      <4>4. r[2] \in Inputs(r[1]) BY <1>6, PortIs
      <4>5. PICK x \in B : x = <<r[2], n>> BY <1>6, <3>2, <4>2, <4>4
      <4>6. x[2] # NOPTS BY <4>1, <4>5
      <4>7. \A j \in DOMAIN s : s[j][2] # NOPTS BY <2>1, <4>3 DEF Marks
      <4>8. \A j \in DOMAIN Append(s, x) : (j \in DOMAIN s /\ Append(s, x)[j] = s[j]) \/ Append(s, x)[j] = x
        BY AppendHas
      <4>9. queue'[k[1]].fifo = Append(s, x) BY <1>a, <3>2, <4>3, <4>5, Zenon
      <4> QED BY <4>6, <4>7, <4>8, <4>9
    <3> QED BY <3>1, <3>2
  <2> QED BY <1>2, <2>1, <2>3, <2>4, MarkStays
<1> QED BY <1>13, <1>14

LEMMA SentLine ==
    ASSUME TypeInv, ListInv, LineInv, MarksInv, NEW t \in Threads, Send(t)
    PROVE  LineInv' /\ MarksInv'
<1>1. TodoOK /\ QueueOK /\ FlagsOK BY DEF TypeInv, Typed
<1>2. /\ UNCHANGED <<nread, nout, taken, dst_finished>>
      /\ UNCHANGED <<pre_mux_queue, mux_started, init_eof>>
  BY DEF Send, SendUnchanged, codecVars, muxVars
<1>3. \A u \in Producers \ {t} : todo'[u] = todo[u] BY SendAlone DEF SendStep
<1>4. \A u \in Threads : Quiet(u) BY SendGoesOn
<1>5. PICK r, n : r = Arg(t) /\ n = Head(todo[t]).ts OBVIOUS
<1>6. Next1(t, "send") BY DEF Send
<1>7. r \in Ports(Consumers) /\ \A k : SendsTo(t, k) => k = r BY <1>5, <1>6, SendsIs
<1>8. r[1] \in Consumers BY <1>7, PortIs
<1>9. ASSUME Keeps, r \in dst_finished \/ TqClosed(r) PROVE LineInv' /\ MarksInv'
  <2>1. \A k \in Lined : Open(k)' /\ k \notin dst_finished' => (GoesOn(t) => ~ SendsTo(t, k))
    <3> SUFFICES ASSUME NEW k \in Lined, Open(k)', k \notin dst_finished', SendsTo(t, k) PROVE FALSE
      OBVIOUS
    <3>1. k = r BY <1>7
    <3>2. TqClosed(k) BY <1>2, <1>9, <3>1
    <3>3. TqClosed(k)' BY <1>8, <1>9, <3>1, <3>2 DEF TqClosed, Keeps
    <3> QED BY <3>3 DEF Open
  <2> QED BY <1>1, <1>2, <1>3, <1>4, <1>9, <2>1, KeepsInLine
<1>10. CASE r \in dst_finished /\ queue' = queue
  <2>1. Keeps BY <1>1, <1>10, QueueKeeps
  <2> QED BY <1>9, <1>10, <2>1
<1>11. CASE r \in init_eof /\ queue' = queue
  <2>1. Keeps BY <1>1, <1>11, QueueKeeps
  <2>2. r \in MuxStreams BY <1>1, <1>11 DEF FlagsOK
  <2>3. TqClosed(r) BY <1>11, <2>2 DEF MarksInv, Marks
  <2> QED BY <1>9, <2>1, <2>3
<1>12. CASE TqClosed(r) /\ queue' = TqSendEOF(r)
  <2>1. Keeps BY <1>1, <1>12, QueueKeeps
  <2> QED BY <1>9, <1>12, <2>1
<1>13. CASE r \notin dst_finished /\ ~ MuxHeld(r) /\ queue' = TqWrite(r, n)
  BY <1>5, <1>13, WrittenLine
<1> QED BY <1>5, <1>10, <1>11, <1>12, <1>13 DEF Send

(* The end of mux_task_start().                                            *)
LEMMA StartedLine ==
    ASSUME TypeInv, LineInv, MarksInv, NEW t \in Threads, NEW m, Next1(t, "flush"), Pop(t),
           \A i \in Inputs(m) : pre_mux_queue[<<m, i>>] = <<>>, mux_started' = mux_started \cup {m},
           UNCHANGED <<queue, pre_mux_queue, init_eof, dst_finished, nread, nout, taken>>
    PROVE  LineInv' /\ MarksInv'
<1>1. TodoOK /\ QueueOK BY DEF TypeInv, Typed
<1>2. \A u \in Threads : Quiet(u) BY <1>1, MovePop
<1>3. \A u \in Threads \ {t} : todo'[u] = todo[u] BY <1>1, OwnRestart
<1>4. \A u \in Producers \ {t} : todo'[u] = todo[u] BY <1>3 DEF Threads, Tasks
<1>5. Keeps BY <1>1, QueueKeeps
<1>6. Grows BY <1>1, <1>2, <1>5, QuietMoves, QuietGrows DEF Keeps
<1>7. \A k : ~ SendsTo(t, k) BY DEF SendsTo, Next1
<1>8. \A k \in Lined : Steady(Src(k), k) BY <1>1, <1>2, <1>4, <1>7, StepSteady
<1>9. LineInv' BY <1>6, <1>8, StaysInLine
<1>10. ASSUME NEW k \in MuxStreams PROVE Marks(k)'
  <2>1. Marks(k) BY DEF MarksInv
  <2>2. k = <<k[1], k[2]>> /\ k[2] \in Inputs(k[1]) BY PortIs DEF MuxStreams
  <2>3. k[1] = m => pre_mux_queue[k] = <<>> BY <2>2
  <2>4. k[1] \in mux_started' => pre_mux_queue'[k] = <<>> BY <2>1, <2>3 DEF Marks
  <2> QED BY <2>1, <2>4 DEF Marks, TqClosed
<1>11. MarksInv' BY <1>10 DEF MarksInv
<1> QED BY <1>9, <1>11

(* The queues when mux_task_start() has passed on the head of queue r.     *)
Flushes(r, n) ==
    \/ n = NOPTS /\ queue' = TqSendFinish(queue, r[1], {r[2]}) /\ UNCHANGED init_eof
    \/ n # NOPTS /\ r \in init_eof /\ UNCHANGED <<queue, init_eof>>
    \/ n # NOPTS /\ TqClosed(r) /\ queue' = TqSendEOF(r) /\ init_eof' = init_eof \cup {r}
    \/ n # NOPTS /\ queue' = TqWrite(r, n) /\ UNCHANGED init_eof

LEMMA FlushKeeps ==
    ASSUME QueueOK, MarksInv, NEW r \in MuxStreams, NEW n \in Nat, Flushes(r, n)
    PROVE  /\ \A c \in Consumers : queue[c].recv \subseteq queue'[c].recv
           /\ \A k \in Lined : \A a, b \in Nat :
                  Line(queue[k[1]].fifo, k[2], a, b) =>
                      /\ k # r \/ n = NOPTS => Line(queue'[k[1]].fifo, k[2], a, b)
                      /\ k = r /\ n = b + 1 /\ ~ TqClosed(k) => Line(queue'[k[1]].fifo, k[2], a, n)
           /\ \A k \in MuxStreams : \A j \in DOMAIN queue'[k[1]].fifo : queue'[k[1]].fifo[j][2] # NOPTS
<1>a. r \in Ports(Consumers) /\ r[1] \in Consumers BY PortIs, PortsIn DEF MuxStreams, Consumers
<1>b. \A k \in MuxStreams : Marks(k) /\ k[1] \in Consumers BY PortIs DEF MuxStreams, Consumers, MarksInv
<1>c. \A k \in Lined : k[1] \in Consumers BY LinedIs
<1>1. CASE Keeps /\ (n = NOPTS \/ TqClosed(r))
  <2>1. \A k \in Lined : queue'[k[1]].fifo = queue[k[1]].fifo BY <1>1, <1>c DEF Keeps
  <2>2. \A k \in MuxStreams : queue'[k[1]].fifo = queue[k[1]].fifo BY <1>1, <1>b DEF Keeps
  <2>3. ASSUME NEW k \in MuxStreams, NEW j \in DOMAIN queue'[k[1]].fifo PROVE queue'[k[1]].fifo[j][2] # NOPTS
    <3>1. queue'[k[1]].fifo = queue[k[1]].fifo BY <2>2
    <3> QED BY <1>b, <2>3, <3>1 DEF Marks
  <2>4. NOPTS = 0 /\ \A b \in Nat : b + 1 # 0 BY DEF NOPTS
  <2> QED BY <1>1, <2>1, <2>3, <2>4 DEF Keeps
<1>2. CASE n # NOPTS /\ queue' = TqWrite(r, n)
  <2>1. queue'[r[1]].fifo = Append(queue[r[1]].fifo, <<r[2], n>>) BY <1>2, <1>a, WriteIs, Zenon
  <2>a. \A c \in Consumers : queue'[c].recv = queue[c].recv BY <1>2, <1>a, WriteIs, Zenon
  <2>b. \A c \in Consumers \ {r[1]} : queue'[c].fifo = queue[c].fifo BY <1>2, <1>a, WriteIs, Zenon
  <2>2. ASSUME NEW k \in Lined, NEW a \in Nat, NEW b \in Nat, Line(queue[k[1]].fifo, k[2], a, b)
        PROVE  /\ k # r \/ n = NOPTS => Line(queue'[k[1]].fifo, k[2], a, b)
               /\ k = r /\ n = b + 1 => Line(queue'[k[1]].fifo, k[2], a, n)
    BY <1>2, <1>a, <2>2, WriteLine
  <2>3. ASSUME NEW k \in MuxStreams, NEW j \in DOMAIN queue'[k[1]].fifo PROVE queue'[k[1]].fifo[j][2] # NOPTS
    <3>1. CASE k[1] # r[1]
      <4>1. queue'[k[1]].fifo = queue[k[1]].fifo BY <1>b, <2>b, <3>1
      <4> QED BY <1>b, <2>3, <4>1 DEF Marks
    <3>2. CASE k[1] = r[1]
      <4>1. PICK B : B = Inputs(r[1]) \X Nat OBVIOUS
      <4>2. PICK s \in Seq(B) : s = queue[r[1]].fifo BY <1>a, <4>1, FifoType
      <4>3. r[2] \in Inputs(r[1]) BY <1>a, PortIs
      <4>4. PICK x \in B : x = <<r[2], n>> BY <4>1, <4>3
      <4>5. x[2] # NOPTS BY <1>2, <4>4
      <4>6. \A i \in DOMAIN s : s[i][2] # NOPTS BY <1>b, <4>2 DEF Marks
      <4>7. \A i \in DOMAIN Append(s, x) : (i \in DOMAIN s /\ Append(s, x)[i] = s[i]) \/ Append(s, x)[i] = x
        BY AppendHas
      <4>8. queue'[k[1]].fifo = Append(s, x) BY <2>1, <3>2, <4>2, <4>4, Zenon
      <4> QED BY <2>3, <4>5, <4>6, <4>7, <4>8
    <3> QED BY <3>1, <3>2
  <2> QED BY <2>a, <2>2, <2>3
<1>3. r \in init_eof => TqClosed(r) BY <1>b DEF Marks
<1>4. CASE n = NOPTS /\ queue' = TqSendFinish(queue, r[1], {r[2]})
  <2>1. Keeps BY <1>4, QueueKeeps
  <2> QED BY <1>1, <1>4, <2>1
<1>5. CASE r \in init_eof /\ queue' = queue
  <2>1. Keeps BY <1>5, QueueKeeps
  <2> QED BY <1>1, <1>3, <1>5, <2>1
<1>6. CASE TqClosed(r) /\ queue' = TqSendEOF(r)
  <2>1. Keeps BY <1>6, QueueKeeps
  <2> QED BY <1>1, <1>6, <2>1
<1> QED BY <1>2, <1>4, <1>5, <1>6 DEF Flushes

LEMMA PreTail ==
    ASSUME DataOK, NEW r \in MuxStreams, pre_mux_queue[r] # <<>>,
           pre_mux_queue' = [pre_mux_queue EXCEPT ![r] = Tail(@)]
    PROVE  /\ \A k \in MuxStreams \ {r} : pre_mux_queue'[k] = pre_mux_queue[k]
           /\ \E l \in Nat : /\ l + 1 = Len(pre_mux_queue[r]) /\ DOMAIN pre_mux_queue[r] = 1 .. l + 1
                             /\ l = Len(pre_mux_queue'[r]) /\ DOMAIN pre_mux_queue'[r] = 1 .. l
                             /\ \A j \in 1 .. l : pre_mux_queue'[r][j] = pre_mux_queue[r][j + 1]
                             /\ Head(pre_mux_queue[r]) = pre_mux_queue[r][1]
<1>1. PICK s \in Seq(Nat) : s = pre_mux_queue[r] BY DEF DataOK
<1>2. pre_mux_queue'[r] = Tail(s) BY <1>1 DEF DataOK
<1>3. PICK l \in Nat : l + 1 = Len(s) /\ DOMAIN s = 1 .. l + 1
  <2>1. PICK m \in Nat : m = Len(s) /\ DOMAIN s = 1 .. m OBVIOUS
  <2>2. m # 0 BY <1>1, <2>1, NoLength
  <2>3. m - 1 \in Nat /\ (m - 1) + 1 = m BY <2>1, <2>2
  <2> QED BY <2>1, <2>3
<1>4. l = Len(Tail(s)) /\ DOMAIN Tail(s) = 1 .. l /\ \A j \in 1 .. l : Tail(s)[j] = s[j + 1]
  BY <1>3
<1>5. Head(s) = s[1] OBVIOUS
<1>6. \A k \in MuxStreams \ {r} : pre_mux_queue'[k] = pre_mux_queue[k] BY DEF DataOK
<1>7. /\ l + 1 = Len(pre_mux_queue[r]) /\ DOMAIN pre_mux_queue[r] = 1 .. l + 1
      /\ l = Len(pre_mux_queue'[r]) /\ DOMAIN pre_mux_queue'[r] = 1 .. l
      /\ \A j \in 1 .. l : pre_mux_queue'[r][j] = pre_mux_queue[r][j + 1]
      /\ Head(pre_mux_queue[r]) = pre_mux_queue[r][1]
  BY <1>1, <1>2, <1>3, <1>4, <1>5, Zenon
<1> QED BY <1>6, <1>7

(* mux_task_start() passes on the head of a pre-muxing queue.              *)
LEMMA FlushedLine ==
    ASSUME TypeInv, LineInv, MarksInv, NEW r \in MuxStreams, pre_mux_queue[r] # <<>>,
           pre_mux_queue' = [pre_mux_queue EXCEPT ![r] = Tail(@)],
           Flushes(r, Head(pre_mux_queue[r])),
           UNCHANGED <<todo, mux_started, dst_finished, nread, nout, taken>>
    PROVE  LineInv' /\ MarksInv'
<1>1. TodoOK /\ QueueOK /\ DataOK BY DEF TypeInv, Typed
<1>2. PICK l \in Nat : /\ l + 1 = Len(pre_mux_queue[r]) /\ DOMAIN pre_mux_queue[r] = 1 .. l + 1
                       /\ l = Len(pre_mux_queue'[r]) /\ DOMAIN pre_mux_queue'[r] = 1 .. l
                       /\ \A j \in 1 .. l : pre_mux_queue'[r][j] = pre_mux_queue[r][j + 1]
                       /\ Head(pre_mux_queue[r]) = pre_mux_queue[r][1]
  BY <1>1, PreTail
<1>3. \A k \in MuxStreams \ {r} : pre_mux_queue'[k] = pre_mux_queue[k] BY <1>1, PreTail
<1>4. PICK n \in Nat : n = pre_mux_queue[r][1]
  <2>1. PICK s \in Seq(Nat) : s = pre_mux_queue[r] BY <1>1 DEF DataOK
  <2>2. 1 \in DOMAIN s BY <1>2, <2>1
  <2>3. s[1] \in Nat BY <2>2
  <2> QED BY <2>1, <2>3
<1>5. Flushes(r, n) BY <1>2, <1>4
<1>6. /\ \A c \in Consumers : queue[c].recv \subseteq queue'[c].recv
      /\ \A k \in MuxStreams : \A j \in DOMAIN queue'[k[1]].fifo : queue'[k[1]].fifo[j][2] # NOPTS
  BY <1>1, <1>5, FlushKeeps
<1>7. ASSUME NEW k \in Lined, NEW a \in Nat, NEW b \in Nat, Line(queue[k[1]].fifo, k[2], a, b)
      PROVE  /\ k # r \/ n = NOPTS => Line(queue'[k[1]].fifo, k[2], a, b)
             /\ k = r /\ n = b + 1 /\ ~ TqClosed(k) => Line(queue'[k[1]].fifo, k[2], a, n)
  BY <1>1, <1>5, <1>7, FlushKeeps
<1>8. \A u \in Threads : Quiet(u) BY MoveNone
<1>9. Grows BY <1>1, <1>6, <1>8, QuietMoves, QuietGrows
<1>10. \A k : Steady(Src(k), k)
  <2>1. \A u, k : Steady(u, k) BY DEF Steady
  <2> QED BY <2>1
<1>11. PICK Q \in [Lined -> Nat] : \A k \in Lined : InLine(Q, k) BY DEF LineInv
<1>12. r \in Lined /\ r[1] \in Consumers BY LinedIs
<1>13. PICK R \in [Lined -> Nat] : (\A k \in Lined \ {r} : R[k] = Q[k]) /\ R[r] = IF n = NOPTS THEN Q[r] ELSE n
  <2> DEFINE F == [k \in Lined |-> IF k = r /\ n # NOPTS THEN n ELSE Q[k]]
  <2>1. F \in [Lined -> Nat] BY <1>4
  <2>2. (\A k \in Lined \ {r} : F[k] = Q[k]) /\ F[r] = IF n = NOPTS THEN Q[r] ELSE n BY <1>12
  <2> HIDE DEF F
  <2> QED BY <2>1, <2>2
<1>14. ASSUME NEW k \in Lined, k # r PROVE InLine(R, k)'
  <2>1. taken[k] \in Nat /\ Q[k] \in Nat BY DEF LineInv
  <2>2. Line(queue[k[1]].fifo, k[2], taken[k], Q[k]) => Line(queue'[k[1]].fifo, k[2], taken'[k], Q[k])
    BY <1>7, <1>14, <2>1
  <2>3. Emitted(k)' = Emitted(k) BY EmittedSame
  <2>4. k \in MuxStreams => pre_mux_queue'[k] = pre_mux_queue[k] BY <1>3, <1>14
  <2>5. R[k] = Q[k] BY <1>13, <1>14
  <2>6. InLine(Q, k) BY <1>11
  <2> QED BY <1>9, <1>10, <2>2, <2>3, <2>4, <2>5, <2>6, InLineKeeps
<1>15. Marks(r) BY DEF MarksInv
<1>16. InLine(R, r)'
  <2>1. InLine(Q, r) BY <1>11, <1>12
  <2>3. ASSUME Open(r)'
        PROVE  /\ Line(queue'[r[1]].fifo, r[2], taken'[r], R[r])
               /\ Held(R, r)'
               /\ r \notin dst_finished' => Fed(R, r)'
    <3>1. Open(r) BY <1>9, <1>12, <2>3, OpenBefore
    <3>2. Line(queue[r[1]].fifo, r[2], taken[r], Q[r]) /\ Held(Q, r) /\ (r \notin dst_finished => Fed(Q, r))
      BY <2>1, <3>1 DEF InLine
    <3>3. taken[r] \in Nat /\ Q[r] \in Nat BY <1>12 DEF LineInv
    <3>4. CASE n = NOPTS
      <4>1. 1 \in DOMAIN pre_mux_queue[r] /\ pre_mux_queue[r][1] = NOPTS BY <1>2, <1>4, <3>4
      <4>2. r \in dst_finished /\ 1 = Len(pre_mux_queue[r]) BY <1>15, <4>1 DEF Marks
      <4>3. l = 0 BY <1>2, <4>2
      <4>4. DOMAIN pre_mux_queue'[r] = {}
        <5>1. DOMAIN pre_mux_queue'[r] = 1 .. 0 BY <1>2, <4>3
        <5>2. 1 .. 0 = {} OBVIOUS
        <5> QED BY <5>1, <5>2
      <4>5. Held(R, r)' BY <4>4 DEF Held
      <4>6. Line(queue'[r[1]].fifo, r[2], taken[r], Q[r]) BY <1>7, <1>12, <3>2, <3>3, <3>4
      <4> QED BY <1>13, <3>4, <4>2, <4>5, <4>6
    <3>5. CASE n # NOPTS
      <4>1. PICK q \in Nat : q = Q[r] BY <3>3
      <4>2. \A j \in 1 .. l + 1 : pre_mux_queue[r][j] # NOPTS => pre_mux_queue[r][j] = q + j
        BY <1>2, <3>2, <4>1 DEF Held
      <4>3. n = q + 1
        <5>1. 1 \in 1 .. l + 1 OBVIOUS
        <5> QED BY <1>4, <3>5, <4>2, <5>1
      <4>4. R[r] = n BY <1>13, <3>5
      <4>5. ~ TqClosed(r) BY <3>1 DEF Open
      <4>6. Line(queue'[r[1]].fifo, r[2], taken[r], n) BY <1>7, <1>12, <3>2, <3>3, <4>1, <4>3, <4>5
      <4>7. ASSUME NEW j \in 1 .. l, pre_mux_queue'[r][j] # NOPTS PROVE pre_mux_queue'[r][j] = n + j
        <5>1. j + 1 \in 1 .. l + 1 /\ pre_mux_queue'[r][j] = pre_mux_queue[r][j + 1] BY <1>2
        <5>2. pre_mux_queue[r][j + 1] = q + (j + 1) BY <4>2, <4>7, <5>1
        <5>3. q + (j + 1) = n + j BY <4>3
        <5> QED BY <5>1, <5>2, <5>3
      <4>8. Held(R, r)' BY <1>2, <4>4, <4>7 DEF Held
      <4>9. Passed(Q, r) = q + (l + 1) BY <1>2, <4>1 DEF Passed
      <4>10. Passed(R, r)' = n + l
        <5>1. Passed(R, r)' = R[r] + (IF r \in MuxStreams THEN Len(pre_mux_queue'[r]) ELSE 0) BY DEF Passed
        <5> QED BY <1>2, <4>4, <5>1
      <4>11. Passed(R, r)' = Passed(Q, r) BY <4>3, <4>9, <4>10
      <4>12. Emitted(r)' = Emitted(r) BY <1>12, EmittedSame
      <4>13. r \notin dst_finished => Fed(R, r)' BY <1>10, <1>12, <3>2, <4>11, <4>12, FedSteady
      <4> QED BY <4>4, <4>6, <4>8, <4>13
    <3> QED BY <3>4, <3>5
  <2> QED BY <2>3 DEF InLine
<1>17. LineInv'
  <2>1. \A k \in Lined : InLine(R, k)' BY <1>14, <1>16
  <2> QED BY <2>1 DEF LineInv
<1>18. \A k \in MuxStreams : k \in init_eof' => k \in init_eof \/ (k = r /\ TqClosed(r))
  BY <1>5 DEF Flushes
<1>19. \A k \in MuxStreams : TqClosed(k) => k[2] \in queue'[k[1]].recv
  <2>1. \A k \in MuxStreams : k[1] \in Consumers BY PortIs DEF MuxStreams, Consumers
  <2> QED BY <1>6, <2>1 DEF TqClosed
<1>20. ASSUME NEW k \in MuxStreams, k # r PROVE Marks(k)'
  <2>1. Marks(k) BY DEF MarksInv
  <2>2. pre_mux_queue'[k] = pre_mux_queue[k] BY <1>3, <1>20
  <2>3. k \in init_eof' => k \in init_eof BY <1>18, <1>20
  <2> QED BY <1>6, <1>19, <2>1, <2>2, <2>3, MarkStays
<1>21. Marks(r)'
  <2>1. ASSUME NEW j \in 1 .. l, pre_mux_queue'[r][j] = NOPTS PROVE r \in dst_finished' /\ j = l
    <3>1. j + 1 \in 1 .. l + 1 /\ pre_mux_queue[r][j + 1] = NOPTS BY <1>2, <2>1
    <3>2. r \in dst_finished /\ j + 1 = l + 1 BY <1>2, <1>15, <3>1 DEF Marks
    <3> QED BY <3>2
  <2>2. r[1] \notin mux_started' BY <1>15 DEF Marks
  <2>3. r \in init_eof' => r[2] \in queue'[r[1]].recv BY <1>15, <1>18, <1>19 DEF Marks
  <2> QED BY <1>2, <1>6, <2>1, <2>2, <2>3 DEF Marks, TqClosed
<1>22. MarksInv' BY <1>20, <1>21 DEF MarksInv
<1> QED BY <1>17, <1>22

LEMMA StartLine ==
    ASSUME TypeInv, LineInv, MarksInv, NEW t \in Threads, MuxTaskStart(t)
    PROVE  LineInv' /\ MarksInv'
<1>1. TodoOK /\ QueueOK /\ DataOK BY DEF TypeInv, Typed
<1>2. Next1(t, "flush") /\ UNCHANGED <<dst_finished, nread, nout, taken>> BY DEF MuxTaskStart, codecVars
<1>3. PICK m \in Muxers : m = Arg(t)[1]
  <2>1. PICK m \in Muxers : Arg(t) = On(m) BY <1>1, <1>2, HeadArg
  <2> QED BY <2>1 DEF On
<1>4. CASE \A i \in Inputs(m) : pre_mux_queue[<<m, i>>] = <<>>
  <2>1. mux_started' = mux_started \cup {m} /\ Pop(t) /\ UNCHANGED <<queue, pre_mux_queue, init_eof>>
    BY <1>3, <1>4 DEF MuxTaskStart
  <2> QED BY <1>2, <1>4, <2>1, StartedLine
<1>5. CASE ~ \A i \in Inputs(m) : pre_mux_queue[<<m, i>>] = <<>>
  <2>1. PICK r, n : r = FlushNext(m) /\ n = Head(pre_mux_queue[r]) OBVIOUS
  <2>2. r \in MuxStreams /\ pre_mux_queue[r] # <<>> /\ r = <<m, r[2]>> BY <1>1, <1>5, <2>1, FlushNextIs
  <2>3. /\ pre_mux_queue' = [pre_mux_queue EXCEPT ![r] = Tail(@)]
        /\ UNCHANGED <<todo, mux_started>>
        /\ \/ n = NOPTS /\ queue' = TqSendFinish(queue, m, {r[2]}) /\ UNCHANGED init_eof
           \/ n # NOPTS /\ r \in init_eof /\ UNCHANGED <<queue, init_eof>>
           \/ n # NOPTS /\ TqClosed(r) /\ queue' = TqSendEOF(r) /\ init_eof' = init_eof \cup {r}
           \/ n # NOPTS /\ queue' = TqWrite(r, n) /\ UNCHANGED init_eof
    BY <1>3, <1>5, <2>1 DEF MuxTaskStart
  <2>4. m = r[1] BY <2>2
  <2>5. Flushes(r, n) BY <2>3, <2>4 DEF Flushes
  <2> QED BY <1>2, <2>1, <2>2, <2>3, <2>5, FlushedLine
<1> QED BY <1>4, <1>5

LEMMA SendLine ==
    ASSUME TypeInv, ListInv, LineInv, MarksInv, NEW t \in Threads, SendStep(t)
    PROVE  LineInv' /\ MarksInv'
BY PreMuxLine, SentLine, FinishLine, OpenLine, ReadyLine, StartLine DEF SendStep

-----------------------------------------------------------------------------
(* The thread functions: what is read was next in line, and goes on to the *)
(* ports of its reader.                                                    *)
LEMMA LoopSame ==
    ASSUME NEW t \in Tasks, LoopStep(t)
    PROVE  UNCHANGED <<dst_finished, pre_mux_queue, mux_started, init_eof>>
<1>1. CASE t \in Waiters /\ WaiterWoken(t) BY <1>1 DEF WaiterWoken, muxVars
<1>2. CASE LoopUnchanged BY <1>2 DEF LoopUnchanged, muxVars
<1>3. (t \in Waiters /\ WaiterWoken(t)) \/ LoopUnchanged
  BY DEF LoopStep, DemuxRead, DecReceive, FilterStep, FilterEmit, FilterEnd, FilterAsk,
         FilterWait, FilterReceive, EncReceive, MuxReceive, TaskFails, Discard
<1> QED BY <1>1, <1>2, <1>3

LEMMA LoopQueue ==
    ASSUME QueueOK, NEW t, queue' = queue \/ Drains(t) \/ Reads(t)
    PROVE  /\ \A c \in Consumers : queue[c].recv \subseteq queue'[c].recv
           /\ \A c \in Consumers : \A j \in DOMAIN queue'[c].fifo : \E i \in DOMAIN queue[c].fifo :
                  queue'[c].fifo[j] = queue[c].fifo[i]
<1>1. CASE queue' = queue BY <1>1
<1>2. CASE Drains(t)
  <2>1. /\ queue'[t].fifo = <<>>
        /\ \A c \in Consumers : queue[c].recv \subseteq queue'[c].recv
        /\ \A c \in Consumers \ {t} : queue'[c].fifo = queue[c].fifo
    BY <1>2, DrainIs
  <2>2. DOMAIN <<>> = {} OBVIOUS
  <2> QED BY <2>1, <2>2
<1>3. CASE Reads(t)
  <2>1. PICK p \in DOMAIN queue[t].fifo :
             /\ queue'[t].fifo = SubSeq(queue[t].fifo, p + 1, Len(queue[t].fifo))
             /\ \A c \in Consumers : queue'[c].recv = queue[c].recv
             /\ \A c \in Consumers \ {t} : queue'[c].fifo = queue[c].fifo
    BY <1>3, ReadIs
  <2>2. t \in Consumers BY <1>3 DEF Reads
  <2>3. PICK B : B = Inputs(t) \X Nat OBVIOUS
  <2>4. PICK s \in Seq(B) : s = queue[t].fifo BY <2>2, <2>3, FifoType
  <2>5. PICK r : r = SubSeq(s, p + 1, Len(s)) OBVIOUS
  <2>6. PICK l \in Nat : /\ DOMAIN s = 1 .. l /\ p \in 1 .. l /\ DOMAIN r = 1 .. l - p
                         /\ \A j \in 1 .. l - p : r[j] = s[p + j]
    BY <2>1, <2>4, <2>5, RestAt
  <2>7. \A j \in 1 .. l - p : p + j \in 1 .. l BY <2>6, Shift
  <2>8. \A j \in DOMAIN r : \E i \in DOMAIN s : r[j] = s[i] BY <2>6, <2>7
  <2>9. queue'[t].fifo = r BY <2>1, <2>4, <2>5
  <2>10. ASSUME NEW c \in Consumers, NEW j \in DOMAIN queue'[c].fifo
         PROVE  \E i \in DOMAIN queue[c].fifo : queue'[c].fifo[j] = queue[c].fifo[i]
    <3>1. CASE c = t BY <2>4, <2>8, <2>9, <2>10, <3>1
    <3>2. CASE c # t
      <4>1. queue'[c].fifo = queue[c].fifo BY <2>1, <3>2
      <4> QED BY <2>10, <4>1
    <3> QED BY <3>1, <3>2
  <2> QED BY <2>1, <2>10
<1> QED BY <1>1, <1>2, <1>3

LEMMA LoopGrows ==
    ASSUME TypeInv, ListInv, MarksInv, NEW t \in Tasks, LoopStep(t)
    PROVE  Grows /\ MarksInv'
<1>1. TodoOK /\ QueueOK BY DEF TypeInv, Typed
<1>2. queue' = queue \/ Drains(t) \/ Reads(t)
  BY LoopMoves DEF Turns, DemuxEmits, FilterEmits, CodecEmits, MuxTakes
<1>3. UNCHANGED <<dst_finished, pre_mux_queue, mux_started, init_eof>> BY LoopSame
<1>4. /\ \A c \in Consumers : queue[c].recv \subseteq queue'[c].recv
      /\ \A c \in Consumers : \A j \in DOMAIN queue'[c].fifo : \E i \in DOMAIN queue[c].fifo :
             queue'[c].fifo[j] = queue[c].fifo[i]
  BY <1>1, <1>2, LoopQueue
<1>5. \A u \in Threads : Moves(u) BY LoopGoesOn
<1>6. Grows BY <1>1, <1>3, <1>4, <1>5, QuietGrows
<1>7. MarksInv' BY <1>3, <1>4, MarksStay DEF Consumers
<1> QED BY <1>6, <1>7

(* A step that sends nothing on.                                           *)
LEMMA TurnLine ==
    ASSUME TypeInv, ListInv, LineInv, MarksInv, NEW t \in Tasks, LoopStep(t),
           Turns(t), \A u \in Threads : Quiet(u)
    PROVE  LineInv'
<1>1. TodoOK /\ QueueOK BY DEF TypeInv, Typed
<1>2. Grows BY LoopGrows
<1>3. UNCHANGED <<dst_finished, pre_mux_queue, nread, nout, taken>> BY LoopSame DEF Turns
<1>4. t \in Threads /\ t # Main BY Kinds DEF Threads
<1>5. Own(t) /\ (Idle(t) \/ \E n \in {"receive_close", "mux_count", "task_failed", "waiting", "receive", "emit",
                             "terminate", "stop_waiter", "unfreeze", "join", "join_mux"} : Next1(t, n))
  BY <1>4, OtherOrder
<1>6. \A u \in Producers \ {t} : todo'[u] = todo[u] BY <1>5 DEF Own, Threads, Tasks
<1>7. GoesOn(t) => Head(todo[t]).op # "send" BY <1>5 DEF GoesOn, Idle, Next1
<1>8. PICK Q \in [Lined -> Nat] : \A k \in Lined : InLine(Q, k) BY DEF LineInv
<1>9. ASSUME NEW k \in Lined PROVE InLine(Q, k)'
  <2>1. Steady(Src(k), k) BY <1>1, <1>4, <1>6, <1>7, StepSteady DEF SendsTo
  <2>2. taken[k] \in Nat /\ Q[k] \in Nat /\ InLine(Q, k) BY <1>8 DEF LineInv
  <2>3. Emitted(k)' = Emitted(k) BY <1>3, EmittedSame
  <2>4. ASSUME Open(k)', Line(queue[k[1]].fifo, k[2], taken[k], Q[k])
        PROVE  Line(queue'[k[1]].fifo, k[2], taken'[k], Q[k])
    <3> taken'[k] = taken[k] BY <1>3
    <3>1. ~ TqClosed(k) BY <1>2, <2>4, OpenBefore DEF Open
    <3>2. CASE queue' = queue BY <2>4, <3>2
    <3>3. CASE Drains(t) BY <1>1, <2>2, <2>4, <3>1, <3>3, DrainLine
    <3>4. CASE Reads(t) /\ (t \in Filter \/ TqItem(t)[2] = NOPTS \/ Exits(todo'[t]))
      <4>1. k # <<t, TqItem(t)[1]>> \/ TqItem(t)[2] = NOPTS
        <5>1. ~ Exits(todo'[k[1]]) BY <2>4 DEF Open, Ended
        <5>2. k[1] \notin Filter BY LinedIs
        <5> QED BY <3>4, <5>1, <5>2
      <4> QED BY <1>1, <2>2, <2>4, <3>1, <3>4, <4>1, ReadLine
    <3> QED BY <3>2, <3>3, <3>4 DEF Turns
  <2> QED BY <1>2, <1>3, <2>1, <2>2, <2>3, <2>4, InLineKeeps
<1> QED BY <1>3, <1>9 DEF LineInv

(* A step that hands n to the ports P of t.                                *)
LEMMA EmitFed ==
    ASSUME NEW t, NEW P, NEW n, Emits(t, P, n), NEW Q, NEW k, t = Src(k), k \in P,
           Fed(Q, k), n = Emitted(k) + 1, n = Emitted(k)', Passed(Q, k)' = Passed(Q, k)
    PROVE  Fed(Q, k)'
<1>1. Due(todo[t], k) = {} /\ ~ Ended(t) BY DEF Emits, Begins, Due
<1>2. Emitted(k) = Passed(Q, k) BY <1>1 DEF Fed
<1>3. Due(todo'[t], k) = {n} BY DEF Emits
<1> QED BY <1>2, <1>3, FedNext

(* n comes after all that t has handed to those ports.                      *)
Adds(t, P, n) ==
    /\ t \in Producers /\ Emits(t, P, n)
    /\ \A k \in Lined : IF Src(k) = t /\ k \in P THEN n = Emitted(k) + 1 /\ n = Emitted(k)'
                        ELSE Emitted(k)' = Emitted(k)
AddsNone == \A k \in Lined : Emitted(k)' = Emitted(k)

LEMMA EmitLine ==
    ASSUME Grows, NEW Q \in [Lined -> Nat], \A k \in Lined : InLine(Q, k),
           taken' \in [Lined -> Nat], NEW t, NEW P, NEW n, Adds(t, P, n),
           pre_mux_queue' = pre_mux_queue,
           \A k \in Lined : Open(k)' /\ Line(queue[k[1]].fifo, k[2], taken[k], Q[k]) =>
                                Line(queue'[k[1]].fifo, k[2], taken'[k], Q[k])
    PROVE  LineInv'
<1> USE DEF Adds
<1> SUFFICES ASSUME NEW k \in Lined PROVE InLine(Q, k)' BY DEF LineInv
<1>1. Passed(Q, k)' = Passed(Q, k) BY PassedSame
<1>2. ASSUME Fed(Q, k) PROVE Fed(Q, k)'
  <2>1. CASE Src(k) = t /\ k \in P BY <1>1, <1>2, <2>1, EmitFed
  <2>2. CASE ~ (Src(k) = t /\ k \in P)
    <3>1. PICK u \in Producers : u = Src(k) BY LinedIs
    <3>2. Steady(u, k)
      <4>1. CASE u = t
        <5>1. Due(todo'[t], k) = {} BY <2>2, <3>1, <4>1 DEF Emits
        <5>2. Due(todo[t], k) = {} /\ ~ Exits(todo[t]) BY DEF Emits, Begins, Due, Ended
        <5> QED BY <4>1, <5>1, <5>2 DEF Steady
      <4>2. CASE u # t
        <5>1. todo'[u] = todo[u] BY <4>2 DEF Emits, Threads, Tasks
        <5> QED BY <5>1 DEF Steady
      <4> QED BY <4>1, <4>2
    <3> QED BY <1>1, <1>2, <2>2, <3>1, <3>2, FedSteady
  <2> QED BY <2>1, <2>2
<1> QED BY <1>2, InLineMoves

LEMMA DemuxLine ==
    ASSUME TypeInv, Grows, LineInv, NEW t, DemuxEmits(t), pre_mux_queue' = pre_mux_queue
    PROVE  LineInv' /\ \E P, n : Adds(t, P, n)
<1>1. DataOK BY DEF TypeInv, Typed
<1>2. t \in Demux /\ t \in Producers /\ UNCHANGED <<queue, nout, taken>> BY DEF DemuxEmits, Producers
<1>3. PICK o \in DOMAIN Outs[t] : /\ nread' = [nread EXCEPT ![t][o] = @ + 1]
                                  /\ Emits(t, Range(Outs[t][o]), nread[t][o] + 1)
  BY DEF DemuxEmits
<1>4. PICK n : n = nread[t][o] + 1 OBVIOUS
<1>5. PICK Q \in [Lined -> Nat] : \A k \in Lined : InLine(Q, k) BY DEF LineInv
<1>6. DOMAIN nread = Demux /\ nread[t] \in [DOMAIN Outs[t] -> Nat] BY <1>1, <1>2 DEF DataOK
<1>7. /\ nread'[t][o] = n
      /\ \A p \in DOMAIN Outs[t] : p # o => nread'[t][p] = nread[t][p]
      /\ \A d \in Demux : d # t => nread'[d] = nread[d]
  BY <1>2, <1>3, <1>4, <1>6
<1>8. ASSUME NEW k \in Lined
      PROVE  IF Src(k) = t /\ k \in Range(Outs[t][o]) THEN n = Emitted(k) + 1 /\ n = Emitted(k)'
             ELSE Emitted(k)' = Emitted(k)
  <2>1. CASE Src(k) = t
    <3>1. k \in Dsts(t) BY <2>1, LinedIs DEF Feeds
    <3>2. PICK p : p = CHOOSE x \in DOMAIN Outs[t] : k \in Range(Outs[t][x]) OBVIOUS
    <3>3. p \in DOMAIN Outs[t] /\ k \in Range(Outs[t][p]) BY <3>1, <3>2 DEF Dsts
    <3>4. Emitted(k) = nread[t][p] BY <1>2, <2>1, <3>2 DEF Emitted
    <3>5. Emitted(k)' = nread'[t][p] BY <1>2, <2>1, <3>2, EmittedNext
    <3>6. k \in Range(Outs[t][o]) <=> p = o BY <1>2, <3>3, DstsOnce
    <3> QED BY <1>4, <1>7, <2>1, <3>3, <3>4, <3>5, <3>6
  <2>2. CASE Src(k) # t
    <3>1. PICK u \in Producers : u = Src(k) BY LinedIs
    <3>2. u \in Demux => nread'[u] = nread[u] BY <1>7, <2>2, <3>1
    <3>3. Emitted(k)' = Emitted(k)
      BY <1>2, <3>1, <3>2, EmittedNext DEF Emitted
    <3> QED BY <2>2, <3>3
  <2> QED BY <2>1, <2>2
<1>9. taken' \in [Lined -> Nat] BY <1>2 DEF LineInv
<1>10. Adds(t, Range(Outs[t][o]), n) BY <1>2, <1>3, <1>4, <1>8 DEF Adds
<1> QED BY <1>2, <1>5, <1>9, <1>10, EmitLine

LEMMA FilterLine ==
    ASSUME TypeInv, Grows, LineInv, NEW t, FilterEmits(t), pre_mux_queue' = pre_mux_queue
    PROVE  LineInv' /\ \E P, n : Adds(t, P, n)
<1>1. DataOK BY DEF TypeInv, Typed
<1>2. t \in Filter /\ t \in Producers /\ UNCHANGED <<queue, nread, taken>> BY DEF FilterEmits, Producers
<1>3. PICK n : n = nout[t] + 1 OBVIOUS
<1>4. nout' = [nout EXCEPT ![t] = @ + 1] /\ Emits(t, Range(AllDsts(t)), n) BY <1>3 DEF FilterEmits
<1>5. PICK Q \in [Lined -> Nat] : \A k \in Lined : InLine(Q, k) BY DEF LineInv
<1>6. nout'[t] = n /\ \A f \in Filter : f # t => nout'[f] = nout[f] BY <1>1, <1>2, <1>3, <1>4 DEF DataOK
<1>7. t \notin Demux BY <1>2, Kinds
<1>8. ASSUME NEW k \in Lined
      PROVE  IF Src(k) = t /\ k \in Range(AllDsts(t)) THEN n = Emitted(k) + 1 /\ n = Emitted(k)'
             ELSE Emitted(k)' = Emitted(k)
  <2>1. CASE Src(k) = t
    <3>1. k \in Dsts(t) BY <2>1, LinedIs DEF Feeds
    <3>2. k \in Range(AllDsts(t))
      <4>1. PICK i \in DOMAIN AllDsts(t) : AllDsts(t)[i] = k BY <1>2, <3>1, DstsOnce
      <4> QED BY <4>1 DEF Range
    <3>3. Emitted(k) = nout[t] BY <1>2, <1>7, <2>1 DEF Emitted
    <3>4. Emitted(k)' = nout'[t] BY <1>2, <1>7, <2>1, EmittedNext
    <3> QED BY <1>3, <1>6, <2>1, <3>2, <3>3, <3>4
  <2>2. CASE Src(k) # t
    <3>1. PICK u \in Producers : u = Src(k) BY LinedIs
    <3>2. u \in Filter => nout'[u] = nout[u] BY <1>6, <2>2, <3>1
    <3>3. Emitted(k)' = Emitted(k) BY <1>2, <3>1, <3>2, EmittedNext DEF Emitted
    <3> QED BY <2>2, <3>3
  <2> QED BY <2>1, <2>2
<1>9. taken' \in [Lined -> Nat] BY <1>2 DEF LineInv
<1>10. Adds(t, Range(AllDsts(t)), n) BY <1>2, <1>4, <1>8 DEF Adds
<1> QED BY <1>2, <1>5, <1>9, <1>10, EmitLine

TakesNext == \A k \in Lined : taken'[k] \in {taken[k], taken[k] + 1}

(* A codec reads what is next in line and hands it to all of its ports.    *)
LEMMA CodecLine ==
    ASSUME TypeInv, Grows, LineInv, NEW t, CodecEmits(t), pre_mux_queue' = pre_mux_queue
    PROVE  LineInv' /\ TakesNext /\ \E P, n : Adds(t, P, n)
<1>1. QueueOK BY DEF TypeInv, Typed
<1>2. /\ t \in Decoders \cup Encoders /\ t \in Producers /\ Reads(t) /\ UNCHANGED <<nread, nout>>
      /\ t \in Consumers /\ UsesItem(t)
  BY DEF CodecEmits, Producers, Consumers
<1>3. PICK n : n = TqItem(t)[2] OBVIOUS
<1>4. Emits(t, Range(AllDsts(t)), n) BY <1>3 DEF CodecEmits
<1>5. n # NOPTS /\ ~ Ended(t) BY <1>4 DEF Emits, Begins
<1>6. PICK Q \in [Lined -> Nat] : \A k \in Lined : InLine(Q, k) BY DEF LineInv
<1>7. PICK h : h = On(t) OBVIOUS
<1>8. /\ h \in Lined /\ h \notin MuxStreams /\ h[1] = t /\ h[2] = 0
      /\ \A k \in Lined : k[1] = t => k = h
  BY <1>2, <1>7, LinedIs DEF On
<1>9. h = <<t, TqItem(t)[1]>> /\ ~ TqClosed(h)
  <2>1. PICK I : I = Inputs(t) OBVIOUS
  <2>2. PICK s \in Seq(I \X Nat) : s = queue[t].fifo BY <1>1, <1>2, <1>8, <2>1, FifoType
  <2>3. PICK p \in DOMAIN s : TqItem(t) = s[p] /\ s[p][1] \notin queue[t].recv BY <1>1, <1>2, <2>2, ReadIs
  <2>4. s[p] \in I \X Nat BY <2>2
  <2>5. s[p][1] \in Inputs(t) BY <2>1, <2>4
  <2>6. <<t, s[p][1]>> \in Lined BY <1>2, <2>5 DEF Lined, Ports, Readers
  <2>7. <<t, s[p][1]>> = h BY <1>8, <2>6
  <2> QED BY <1>8, <2>3, <2>7 DEF TqClosed
<1>10. Line(queue[t].fifo, 0, taken[h], Q[h]) BY <1>5, <1>6, <1>8, <1>9 DEF InLine, Open
<1>11. taken[h] \in Nat /\ Q[h] \in Nat BY <1>6, <1>8 DEF LineInv
<1>12. n = taken[h] + 1 /\ Line(queue'[t].fifo, 0, n, Q[h])
  BY <1>1, <1>2, <1>3, <1>5, <1>8, <1>9, <1>10, <1>11, ReadLine
<1>13. taken' = [taken EXCEPT ![h] = n] BY <1>2, <1>3, <1>5, <1>9 DEF UsesItem
<1>14. taken' \in [Lined -> Nat] /\ taken'[h] = n /\ \A k \in Lined : k # h => taken'[k] = taken[k]
  BY <1>8, <1>11, <1>12, <1>13 DEF LineInv
<1>15. ASSUME NEW k \in Lined
       PROVE  IF Src(k) = t /\ k \in Range(AllDsts(t)) THEN n = Emitted(k) + 1 /\ n = Emitted(k)'
              ELSE Emitted(k)' = Emitted(k)
  <2>1. PICK u \in Producers : u = Src(k) BY LinedIs
  <2>2. CASE u = t
    <3>1. t \notin Demux /\ t \notin Filter BY <1>2, Kinds
    <3>2. k \in Dsts(t) BY <2>1, <2>2, LinedIs DEF Feeds
    <3>3. k \in Range(AllDsts(t))
      <4>1. PICK i \in DOMAIN AllDsts(t) : AllDsts(t)[i] = k BY <1>2, <3>2, DstsOnce
      <4> QED BY <4>1 DEF Range
    <3>4. Emitted(k) = taken[h] BY <1>7, <2>1, <2>2, <3>1 DEF Emitted
    <3>5. Emitted(k)' = taken'[h] BY <1>7, <2>1, <2>2, <3>1, EmittedNext
    <3> QED BY <1>12, <1>14, <2>1, <2>2, <3>3, <3>4, <3>5
  <2>3. CASE u # t
    <3>1. On(u) # h BY <1>7, <2>3 DEF On
    <3>2. u \in Decoders \cup Encoders => taken'[On(u)] = taken[On(u)] BY <1>14, <3>1, LinedIs
    <3>3. u \in Demux \/ u \in Filter \/ u \in Decoders \cup Encoders BY DEF Producers
    <3>4. Emitted(k)' = Emitted(k) BY <1>2, <2>1, <3>2, <3>3, EmittedNext DEF Emitted
    <3> QED BY <2>1, <2>3, <3>4
  <2> QED BY <2>2, <2>3
<1>16. TakesNext BY <1>11, <1>12, <1>14 DEF TakesNext
<1>17. ASSUME NEW k \in Lined, Open(k)', Line(queue[k[1]].fifo, k[2], taken[k], Q[k])
       PROVE  Line(queue'[k[1]].fifo, k[2], taken'[k], Q[k])
  <2>1. CASE k = h BY <1>8, <1>12, <1>14, <2>1
  <2>2. CASE k # h
    <3>1. ~ TqClosed(k) BY <1>17, OpenBefore DEF Open
    <3>2. taken[k] \in Nat /\ Q[k] \in Nat /\ taken'[k] = taken[k] BY <1>6, <1>14, <2>2 DEF LineInv
    <3> QED BY <1>1, <1>2, <1>9, <1>17, <2>2, <3>1, <3>2, ReadLine
  <2> QED BY <2>1, <2>2
<1>18. Adds(t, Range(AllDsts(t)), n) BY <1>2, <1>4, <1>15 DEF Adds
<1> QED BY <1>6, <1>14, <1>16, <1>17, <1>18, EmitLine

(* A muxer reads the packet after the last one it took.                    *)
LEMMA TakeLine ==
    ASSUME TypeInv, Grows, LineInv, MarksInv, NEW t, MuxTakes(t), pre_mux_queue' = pre_mux_queue
    PROVE  LineInv' /\ TakesNext /\ AddsNone
<1>1. QueueOK /\ DataOK BY DEF TypeInv, Typed
<1>2. t \in Muxers /\ Reads(t) /\ UNCHANGED <<todo, nread, nout>> /\ ~ Ended(t) /\ t \in Consumers
  BY DEF MuxTakes, Consumers
<1>3. PICK n : n = TqItem(t)[2] OBVIOUS
<1>4. PICK h : h = <<t, TqItem(t)[1]>> OBVIOUS
<1>6. PICK Q \in [Lined -> Nat] : \A k \in Lined : InLine(Q, k) BY DEF LineInv
<1>7. h \in MuxStreams /\ h \in Lined /\ h[1] = t /\ ~ TqClosed(h) /\ n # NOPTS
  <2>1. t \in Readers BY <1>2 DEF Readers
  <2>2. PICK I : I = Inputs(t) OBVIOUS
  <2>3. PICK s \in Seq(I \X Nat) : s = queue[t].fifo BY <1>1, <1>2, <2>2, FifoType, Kinds
  <2>4. PICK p \in DOMAIN s : TqItem(t) = s[p] /\ s[p][1] \notin queue[t].recv BY <1>1, <1>2, <2>3, ReadIs
  <2>5. s[p] \in I \X Nat BY <2>3
  <2>6. s[p][1] \in Inputs(t) BY <2>2, <2>5
  <2>7. h = <<t, s[p][1]>> BY <1>4, <2>4
  <2>8. h \in MuxStreams BY <1>2, <2>6, <2>7 DEF MuxStreams, Ports
  <2>9. Marks(h) BY <2>8 DEF MarksInv
  <2>10. s[p][2] # NOPTS BY <2>3, <2>7, <2>9 DEF Marks
  <2> QED BY <1>3, <2>3, <2>4, <2>7, <2>8, <2>10, LinedIs DEF TqClosed
<1>5. taken' = [taken EXCEPT ![h] = n] BY <1>3, <1>4, <1>7 DEF MuxTakes, UsesItem
<1>8. taken[h] \in Nat /\ Q[h] \in Nat BY <1>6, <1>7 DEF LineInv
<1>9. Line(queue[h[1]].fifo, h[2], taken[h], Q[h]) BY <1>2, <1>6, <1>7 DEF InLine, Open
<1>10. n = taken[h] + 1 /\ Line(queue'[h[1]].fifo, h[2], n, Q[h])
  BY <1>1, <1>2, <1>3, <1>4, <1>7, <1>8, <1>9, ReadLine
<1>12. taken' \in [Lined -> Nat] /\ taken'[h] = n /\ \A k \in Lined : k # h => taken'[k] = taken[k]
  BY <1>5, <1>7, <1>8, <1>10 DEF LineInv
<1>15. TakesNext BY <1>8, <1>10, <1>12 DEF TakesNext
<1>16. ASSUME NEW k \in Lined PROVE InLine(Q, k)' /\ Emitted(k)' = Emitted(k)
  <2>1. InLine(Q, k) BY <1>6
  <2>3. ASSUME Open(k)', Line(queue[k[1]].fifo, k[2], taken[k], Q[k])
        PROVE  Line(queue'[k[1]].fifo, k[2], taken'[k], Q[k])
    <3>1. CASE k = h BY <1>10, <1>12, <3>1
    <3>2. CASE k # h
      <4>1. ~ TqClosed(k) BY <2>3, OpenBefore DEF Open
      <4>2. taken[k] \in Nat /\ Q[k] \in Nat /\ taken'[k] = taken[k] BY <1>6, <1>12, <3>2 DEF LineInv
      <4> QED BY <1>1, <1>2, <1>4, <2>3, <3>2, <4>1, <4>2, ReadLine
    <3> QED BY <3>1, <3>2
  <2>4. Steady(Src(k), k) BY <1>2 DEF Steady
  <2>5. PICK u \in Producers : u = Src(k) BY LinedIs
  <2>6. u \in Decoders \cup Encoders => taken'[On(u)] = taken[On(u)] BY <1>7, <1>12, LinedIs
  <2>7. u \in Demux \/ u \in Filter \/ u \in Decoders \cup Encoders BY DEF Producers
  <2>8. Emitted(k)' = Emitted(k) BY <1>2, <2>5, <2>6, <2>7, EmittedNext DEF Emitted
  <2> QED BY <1>2, <2>1, <2>3, <2>4, <2>8, InLineKeeps
<1>17. LineInv' BY <1>12, <1>16 DEF LineInv
<1> QED BY <1>15, <1>16, <1>17 DEF AddsNone

LEMMA LoopLine ==
    ASSUME TypeInv, ListInv, LineInv, MarksInv, NEW t \in Tasks, LoopStep(t)
    PROVE  /\ LineInv' /\ MarksInv'
           /\ taken' = taken \/ TakesNext
           /\ (AddsNone /\ \A u \in Threads : Quiet(u)) \/ \E P, n : Adds(t, P, n)
<1>1. Grows /\ MarksInv' BY LoopGrows
<1>2. pre_mux_queue' = pre_mux_queue BY LoopSame
<1>3. CASE Turns(t) /\ \A u \in Threads : Quiet(u)
  <2>1. UNCHANGED <<nread, nout, taken>> BY <1>3 DEF Turns
  <2>2. AddsNone BY <2>1, EmittedSame DEF AddsNone
  <2> QED BY <1>1, <1>3, <2>1, <2>2, TurnLine
<1>4. CASE DemuxEmits(t)
  <2>1. taken' = taken BY <1>4 DEF DemuxEmits
  <2> QED BY <1>1, <1>2, <1>4, <2>1, DemuxLine
<1>5. CASE FilterEmits(t)
  <2>1. taken' = taken BY <1>5 DEF FilterEmits
  <2> QED BY <1>1, <1>2, <1>5, <2>1, FilterLine
<1>6. CASE CodecEmits(t) BY <1>1, <1>2, <1>6, CodecLine
<1>7. CASE MuxTakes(t)
  <2>1. \A u \in Threads : Quiet(u) BY <1>7, MoveNone DEF MuxTakes
  <2> QED BY <1>1, <1>2, <1>7, <2>1, TakeLine
<1> QED BY <1>3, <1>4, <1>5, <1>6, <1>7, LoopMoves

-----------------------------------------------------------------------------
(* At first nothing has been read, sent or taken.                          *)
LEMMA InitLine == Init => LineInv /\ MarksInv
<1> SUFFICES ASSUME Init PROVE LineInv /\ MarksInv OBVIOUS
<1>1. \A c \in Consumers : queue[c].fifo = <<>> BY DEF Init
<1>2. \A k \in MuxStreams : pre_mux_queue[k] = <<>> BY DEF Init
<1>3. taken = [k \in Lined |-> 0] /\ init_eof = {} BY DEF Init, Lined, Readers
<1>4. \A d \in Demux : \A o \in DOMAIN Outs[d] : nread[d][o] = 0 BY DEF Init
<1>5. \A f \in Filter : nout[f] = 0 BY DEF Init
<1>6. ASSUME NEW t \in Threads, NEW k PROVE Due(todo[t], k) = {}
  <2>1. todo[t] \in {<<>>, <<Op("schedule", On(t), NOPTS)>>, <<Op("open", On(t), NOPTS)>>} BY <1>6 DEF Init
  <2>2. \A n : Op(n, On(t), NOPTS).op = n BY DEF Op
  <2> HIDE DEF Op
  <2>3. \A o \in Range(todo[t]) : o.op # "send" BY <2>1, <2>2, RangeSmall
  <2> QED BY <2>3 DEF Due, Items
<1>7. PICK Q : Q = [k \in Lined |-> 0] OBVIOUS
<1>8. /\ Q \in [Lined -> Nat] /\ \A k \in Lined : Q[k] = 0
      /\ taken \in [Lined -> Nat] /\ \A k \in Lined : taken[k] = 0
  BY <1>3, <1>7
<1>9. ASSUME NEW k \in Lined PROVE InLine(Q, k)
  <2>1. Due(todo[Src(k)], k) = {} BY <1>6, LinedIs
  <2>2. Passed(Q, k) = 0
    <3>1. k \in MuxStreams => Len(pre_mux_queue[k]) = 0 BY <1>2
    <3> QED BY <1>8, <3>1 DEF Passed
  <2>3. Emitted(k) = 0
    <3>1. PICK t \in Producers : t = Src(k) BY LinedIs
    <3>2. k \in Dsts(t) BY <3>1, LinedIs DEF Feeds
    <3>3. PICK p : p = CHOOSE x \in DOMAIN Outs[t] : k \in Range(Outs[t][x]) OBVIOUS
    <3>4. p \in DOMAIN Outs[t] BY <3>2, <3>3 DEF Dsts
    <3>5. t \in Demux => nread[t][p] = 0 BY <1>4, <3>4
    <3>6. t \in Demux \/ t \in Filter \/ t \in Decoders \cup Encoders BY DEF Producers
    <3>7. t \in Decoders \cup Encoders => taken[On(t)] = 0 BY <1>8, LinedIs
    <3> QED BY <1>5, <3>1, <3>3, <3>5, <3>6, <3>7 DEF Emitted
  <2>4. Fed(Q, k) BY <2>1, <2>2, <2>3 DEF Fed
  <2>5. Held(Q, k) BY <1>2 DEF Held
  <2>6. Line(queue[k[1]].fifo, k[2], taken[k], Q[k])
    <3>1. queue[k[1]].fifo = <<>> BY <1>1, LinedIs
    <3> QED BY <1>8, <3>1 DEF Line
  <2> QED BY <1>3, <1>8, <2>4, <2>5, <2>6 DEF InLine
<1>10. LineInv BY <1>8, <1>9 DEF LineInv
<1>11. ASSUME NEW k \in MuxStreams PROVE Marks(k)
  <2>1. queue[k[1]].fifo = <<>> BY <1>1, LinedIs
  <2> QED BY <1>2, <1>3, <2>1 DEF Marks
<1> QED BY <1>3, <1>10, <1>11 DEF MarksInv

LEMMA LineInvStep ==
    ASSUME IInv, TypeInv, ListInv, LineInv, MarksInv, [Next]_vars
    PROVE  LineInv' /\ MarksInv' /\ (taken' = taken \/ TakesNext)
<1>1. TodoOK /\ QueueOK BY DEF TypeInv, Typed
<1>2. ASSUME NEW t \in Threads, ThreadStep(t)
      PROVE  LineInv' /\ MarksInv' /\ (taken' = taken \/ TakesNext)
  <2>1. CASE LockStep(t)
    <3>1. taken' = taken
      BY <2>1 DEF LockStep, ScheduleFirst, SetLastDts, SourceFinished, MuxDone, FilterSendFinished,
                  FilterReceiveFinish, SetBestInput, TaskExited, ScheduleApply, SchedUnchanged, codecVars
    <3> QED BY <1>2, <2>1, <3>1, LockLine
  <2>2. CASE SendStep(t)
    <3>1. taken' = taken
      BY <2>2 DEF SendStep, SendToPreMux, Send, SendFinish, EncOpen, EncOpenFails, MuxStreamReady,
                  MuxTaskStart, SendUnchanged, codecVars
    <3> QED BY <1>2, <2>2, <3>1, SendLine
  <2>3. CASE EndStep(t) \/ (t = Main /\ MainStep)
    <3>1. taken' = taken
      BY <2>3 DEF EndStep, ReceiveClose, MuxCount, TaskFailed, MainStep, SchWaitDone, SchStop, TaskStop,
                  LoopUnchanged, MainUnchanged, codecVars
    <3> QED BY <1>2, <2>3, <3>1, OtherLine
  <2>4. CASE t # Main /\ LoopStep(t)
    <3>1. t \in Tasks BY <2>4 DEF Threads
    <3> QED BY <2>4, <3>1, LoopLine
  <2> QED BY <1>2, <2>1, <2>2, <2>3, <2>4 DEF ThreadStep
<1>3. CASE UserStops
  <2>1. Main \in Threads BY DEF Threads
  <2>2. taken' = taken BY <1>3 DEF UserStops, MainUnchanged, codecVars
  <2> QED BY <1>3, <2>1, <2>2, OtherLine
<1>4. CASE UNCHANGED vars
  <2>1. UNCHANGED <<todo, queue, dst_finished, nread, nout, taken, pre_mux_queue, mux_started, init_eof>>
    BY <1>4 DEF vars, codecVars, muxVars
  <2>2. Keeps BY <2>1 DEF Keeps
  <2>3. Main \in Threads BY DEF Threads
  <2>4. \A u \in Threads : Quiet(u) BY <2>1 DEF Quiet
  <2>5. Grows BY <1>1, <2>1, <2>2, <2>4, QuietMoves, QuietGrows DEF Keeps
  <2>6. \A k \in Lined : Steady(Src(k), k) BY <2>1 DEF Steady
  <2>7. \A c \in Readers : queue'[c].fifo = queue[c].fifo BY <2>1
  <2>8. LineInv' BY <2>1, <2>5, <2>6, <2>7, StaysInLine
  <2>9. dst_finished \subseteq dst_finished' /\ UNCHANGED <<pre_mux_queue, mux_started, init_eof>> BY <2>1
  <2>10. MarksInv' BY <1>1, <2>2, <2>9, KeepsMarks
  <2> QED BY <2>1, <2>8, <2>10
<1> QED BY <1>2, <1>3, <1>4 DEF Next

(* The readers of the thread queues - a decoder, an encoder, a muxer - take  *)
(* the items of each port one after the other, none missing, none twice. For *)
(* a muxer: whether their sender found it not started and left them in       *)
(* pre_mux_queue, from which mux_task_start() moves them, or called          *)
(* tq_send() itself (send_to_mux()), whatever thread started it in between.  *)
THEOREM StreamsInOrder == Spec => TakenInOrder
<1> DEFINE J == IInv /\ TypeInv /\ ListInv /\ LineInv /\ MarksInv
<1>1. Init => J BY InitIInv, InitTypeInv, InitList, InitLine
<1>2. J /\ [Next]_vars => J' BY IInvStep, TypeInvStep, ListInvStep, LineInvStep
<1>3. ASSUME J, [Next]_vars
      PROVE  [\A k \in DOMAIN taken : taken'[k] \in {taken[k], taken[k] + 1}]_taken
  <2>1. DOMAIN taken = Lined BY <1>3 DEF LineInv
  <2> QED BY <1>3, <2>1, LineInvStep DEF TakesNext
<1> HIDE DEF J
<1> QED BY <1>1, <1>2, <1>3, PTL DEF Spec, TakenInOrder

-----------------------------------------------------------------------------
(* The packet in hand of a muxer's stream is the last that was made for it. *)

Stamped(s, k, n) == \A o \in Range(s) : Dates(o, k) => o.ts = n
DtsInv == \A k \in MuxStreams : last_dts[k] <= Emitted(k) /\ Stamped(todo[Src(k)], k, Emitted(k))

LEMMA NoDates ==
    ASSUME NEW t, NEW s, Fresh(t, s), NEW k \in MuxStreams, Due(s, k) = {}
    PROVE  \A o \in Range(s) : ~ Dates(o, k)
<1>1. ASSUME NEW o \in Range(s), Dates(o, k) PROVE FALSE
  <2>1. o.op = "send" /\ o.k = k /\ o.ts # NOPTS BY <1>1 DEF Fresh, OpenOK, Dates
  <2>2. o.ts \in Due(s, k) BY <2>1 DEF Due, Items
  <2> QED BY <2>2
<1> QED BY <1>1

LEMMA QuietStamped ==
    ASSUME TodoOK, NEW u \in Threads, Quiet(u), NEW k \in MuxStreams, NEW n, Stamped(todo[u], k, n)
    PROVE  Stamped(todo'[u], k, n)
<1>1. CASE todo'[u] = todo[u] BY <1>1
<1>2. CASE GoesOn(u)
  <2>1. PICK q \in Seq(Ops(u)) : Mute(q) /\ Dated(q, Head(todo[u])) /\ todo'[u] = q \o Tail(todo[u])
    BY <1>2 DEF GoesOn
  <2>2. todo[u] \in Seq(Ops(u)) /\ todo[u] # <<>> BY <1>2 DEF TodoOK, GoesOn
  <2>3. \A o : o \in Range(todo[u]) <=> o = Head(todo[u]) \/ o \in Range(Tail(todo[u]))
    BY <2>2, TailParts
  <2>4. Tail(todo[u]) \in Seq(Ops(u)) BY <2>2, TailType
  <2>5. \A o : o \in Range(todo'[u]) <=> o \in Range(q) \/ o \in Range(Tail(todo[u]))
    BY <2>1, <2>4, RangeConcat
  <2>6. ASSUME NEW o \in Range(q), Dates(o, k) PROVE o.ts = n
    <3>1. o.op = "last_dts" BY <2>1, <2>6 DEF Mute, Loud, Dates
    <3>2. Dates(Head(todo[u]), k) /\ o.ts = Head(todo[u]).ts
      BY <2>1, <2>6, <3>1 DEF Dated, Dates
    <3> QED BY <2>3, <3>2 DEF Stamped
  <2> QED BY <2>3, <2>5, <2>6 DEF Stamped
<1>3. CASE Ends(u) \/ Rests(u)
  <2>1. Fresh(u, todo'[u]) /\ Items(todo'[u]) = {} BY <1>3 DEF Ends, Rests, Begins
  <2>2. Due(todo'[u], k) = {} BY <2>1 DEF Due
  <2> QED BY <2>1, <2>2, NoDates DEF Stamped
<1> QED BY <1>1, <1>2, <1>3 DEF Quiet

LEMMA EmittedType ==
    ASSUME TypeInv, LineInv, NEW k \in Lined
    PROVE  Emitted(k) \in Nat
<1>1. PICK t \in Producers : t = Src(k) BY LinedIs
<1>2. CASE t \in Demux
  <2>1. PICK p : p = CHOOSE x \in DOMAIN Outs[t] : k \in Range(Outs[t][x]) OBVIOUS
  <2>2. k \in Dsts(t) BY <1>1, LinedIs DEF Feeds
  <2>3. p \in DOMAIN Outs[t] BY <2>1, <2>2 DEF Dsts
  <2>4. nread[t][p] \in Nat BY <1>2, <2>3 DEF TypeInv, Typed, DataOK
  <2> QED BY <1>1, <1>2, <2>1, <2>4 DEF Emitted
<1>3. CASE t \in Filter
  <2>1. nout[t] \in Nat BY <1>3 DEF TypeInv, Typed, DataOK
  <2>2. t \notin Demux BY <1>3, Kinds
  <2> QED BY <1>1, <1>3, <2>1, <2>2 DEF Emitted
<1>4. CASE t \in Decoders \cup Encoders
  <2>1. t \notin Demux /\ t \notin Filter BY <1>4, Kinds
  <2>2. taken[On(t)] \in Nat BY <1>4, LinedIs DEF LineInv
  <2> QED BY <1>1, <2>1, <2>2 DEF Emitted
<1> QED BY <1>1, <1>2, <1>3, <1>4 DEF Producers

LEMMA OpenStamped ==
    ASSUME TypeInv, NEW t \in Threads, EncOpen(t), NEW k \in MuxStreams, NEW n, Stamped(todo[Src(k)], k, n)
    PROVE  Stamped(todo'[Src(k)], k, n)
<1>1. TodoOK BY DEF TypeInv, Typed
<1>2. Src(k) \in Producers BY LinedIs
<1>3. CASE Src(k) # t
  <2>1. SendStep(t) BY DEF SendStep
  <2>2. todo'[Src(k)] = todo[Src(k)] BY <1>2, <1>3, <2>1, SendAlone
  <2> QED BY <2>2
<1>4. CASE Src(k) = t
  <2>1. PICK e \in Encoders, nm \in {"open", "send"} :
          /\ Next1(t, nm)
          /\ Replace(t, ReadyOps(e) \o (IF nm = "send" THEN <<Head(todo[t])>> ELSE <<>>))
    BY <1>1, OpenIs
  <2>2. Head(todo[t]) \in Ops(t) /\ Tail(todo[t]) \in Seq(Ops(t)) /\ todo[t] \in Seq(Ops(t)) /\ todo[t] # <<>>
    BY <1>1, <2>1, HeadType DEF TodoOK
  <2>3. PICK c \in Seq(Ops(t)) : /\ c = IF nm = "send" THEN <<Head(todo[t])>> ELSE <<>>
                                 /\ \A o \in Range(c) : o = Head(todo[t])
    <3>1. <<Head(todo[t])>> \in Seq(Ops(t)) /\ <<>> \in Seq(Ops(t)) BY <2>2, OneOp, NoOps
    <3> QED BY <3>1, RangeSmall
  <2>4. ReadyOps(e) \in Seq(Ops(t)) /\ \A o \in Range(ReadyOps(e)) : o.op = "ready"
    BY ReadyType, ReadyIs
  <2>5. todo'[t] = (ReadyOps(e) \o c) \o Tail(todo[t]) BY <1>1, <2>1, <2>3 DEF Replace, TodoOK
  <2>6. ReadyOps(e) \o c \in Seq(Ops(t)) BY <2>3, <2>4, MoreOps
  <2>7. ASSUME NEW o \in Range(todo'[t]) PROVE o.op = "ready" \/ o \in Range(todo[t])
    <3>1. o \in Range(ReadyOps(e) \o c) \/ o \in Range(Tail(todo[t])) BY <2>2, <2>5, <2>6, <2>7, RangeConcat
    <3>2. o \in Range(ReadyOps(e)) \/ o \in Range(c) \/ o \in Range(Tail(todo[t]))
      BY <2>3, <2>4, <3>1, RangeConcat
    <3> QED BY <2>2, <2>3, <2>4, <3>2, TailParts
  <2> QED BY <1>4, <2>7 DEF Stamped, Dates
<1> QED BY <1>3, <1>4

LEMMA LoopDates ==
    ASSUME TypeInv, ListInv, LineInv, MarksInv, DtsInv, NEW t \in Tasks, LoopStep(t), NEW k \in MuxStreams
    PROVE  last_dts'[k] <= Emitted(k)' /\ Stamped(todo'[Src(k)], k, Emitted(k)')
<1>1. TodoOK /\ last_dts[k] \in Nat BY DEF TypeInv, Typed, FlagsOK
<1>2. last_dts' = last_dts BY LoopKeeps DEF schedVars
<1>3. Src(k) \in Threads /\ k \in Lined BY LinedIs
<1>4. last_dts[k] <= Emitted(k) /\ Stamped(todo[Src(k)], k, Emitted(k)) BY DEF DtsInv
<1>5. Emitted(k) \in Nat BY <1>3, EmittedType
<1>6. CASE AddsNone /\ \A u \in Threads : Quiet(u)
  <2>1. Emitted(k)' = Emitted(k) BY <1>3, <1>6 DEF AddsNone
  <2>2. Stamped(todo'[Src(k)], k, Emitted(k)) BY <1>1, <1>3, <1>4, <1>6, QuietStamped
  <2> QED BY <1>2, <1>4, <2>1, <2>2
<1>7. CASE \E P, n : Adds(t, P, n)
  <2>1. PICK P, n : Adds(t, P, n) BY <1>7
  <2>2. IF Src(k) = t /\ k \in P THEN n = Emitted(k) + 1 /\ n = Emitted(k)' ELSE Emitted(k)' = Emitted(k)
    BY <1>3, <2>1 DEF Adds
  <2>3. Emits(t, P, n) /\ Fresh(t, todo'[t]) BY <2>1 DEF Adds, Emits, Begins
  <2>4. last_dts'[k] <= Emitted(k)' BY <1>1, <1>2, <1>4, <1>5, <2>2
  <2>5. CASE Src(k) # t
    <3>1. todo'[Src(k)] = todo[Src(k)] BY <1>3, <2>3, <2>5 DEF Emits
    <3>2. Emitted(k)' = Emitted(k) BY <2>2, <2>5
    <3> QED BY <1>4, <2>4, <3>1, <3>2
  <2>6. CASE Src(k) = t /\ k \notin P
    <3>1. Due(todo'[t], k) = {} BY <2>3, <2>6 DEF Emits
    <3>2. \A o \in Range(todo'[t]) : ~ Dates(o, k) BY <2>3, <3>1, NoDates
    <3> QED BY <2>4, <2>6, <3>2 DEF Stamped
  <2>7. CASE Src(k) = t /\ k \in P
    <3>1. Due(todo'[t], k) = {n} /\ n = Emitted(k)' BY <2>2, <2>3, <2>7 DEF Emits
    <3>2. ASSUME NEW o \in Range(todo'[t]), Dates(o, k) PROVE o.ts = n
      <4>1. o.op = "send" /\ o.k = k /\ o.ts # NOPTS BY <2>3, <3>2 DEF Fresh, OpenOK, Dates
      <4>2. o.ts \in Due(todo'[t], k) BY <4>1 DEF Due, Items
      <4> QED BY <3>1, <4>2
    <3> QED BY <2>4, <2>7, <3>1, <3>2 DEF Stamped
  <2> QED BY <2>5, <2>6, <2>7
<1> QED BY <1>6, <1>7, LoopLine

LEMMA DtsInvStep ==
    ASSUME IInv, TypeInv, ListInv, LineInv, MarksInv, DtsInv, [Next]_vars
    PROVE  DtsInv' /\ \A k \in MuxStreams : last_dts[k] <= last_dts'[k]
<1>1. TodoOK /\ \A k \in MuxStreams : last_dts[k] \in Nat BY DEF TypeInv, Typed, FlagsOK
<1>2. MuxStreams' = MuxStreams /\ \A k : Src(k)' = Src(k) BY SameSource DEF MuxStreams, Ports, Inputs
<1> SUFFICES ASSUME NEW k \in MuxStreams
             PROVE  /\ last_dts'[k] <= Emitted(k)' /\ Stamped(todo'[Src(k)], k, Emitted(k)')
                    /\ last_dts[k] <= last_dts'[k]
  BY <1>2 DEF DtsInv, Stamped, Dates
<1>3. Src(k) \in Threads /\ Src(k) \in Producers /\ k \in Lined BY LinedIs
<1>4. last_dts[k] <= Emitted(k) /\ Stamped(todo[Src(k)], k, Emitted(k)) BY DEF DtsInv
<1>5. ASSUME nread' = nread, nout' = nout, taken' = taken PROVE Emitted(k)' = Emitted(k)
  BY <1>3, <1>5, EmittedSame
<1>6. ASSUME NEW t \in Threads, ThreadStep(t)
      PROVE  /\ last_dts'[k] <= Emitted(k)' /\ Stamped(todo'[Src(k)], k, Emitted(k)')
             /\ last_dts[k] <= last_dts'[k]
  <2>1. CASE LockStep(t)
    <3>1. UNCHANGED <<nread, nout, taken>> /\ (~ SetLastDts(t) => last_dts' = last_dts)
      BY <2>1, LockKeeps DEF codecVars
    <3>2. Emitted(k)' = Emitted(k) BY <1>5, <3>1
    <3>3. \A u \in Threads : Quiet(u) BY <2>1, LockMoves
    <3>4. Stamped(todo'[Src(k)], k, Emitted(k)) BY <1>1, <1>3, <1>4, <3>3, QuietStamped
    <3>5. CASE SetLastDts(t) /\ k = Arg(t)
      <4>1. last_dts'[k] = Emitted(k) /\ last_dts'[k] \in Nat
        BY <1>4, <3>5, SetIs DEF Stamped
      <4> QED BY <1>4, <3>2, <3>4, <4>1
    <3>6. CASE ~ (SetLastDts(t) /\ k = Arg(t))
      <4>1. last_dts'[k] = last_dts[k] BY <3>1, <3>6, SetIs
      <4> QED BY <1>1, <1>4, <3>2, <3>4, <4>1
    <3> QED BY <3>5, <3>6
  <2>2. CASE SendStep(t)
    <3>1. UNCHANGED <<nread, nout, taken, last_dts>> BY <2>2, SendKeeps DEF codecVars, schedVars
    <3>2. Emitted(k)' = Emitted(k) BY <1>5, <3>1
    <3>3. Stamped(todo'[Src(k)], k, Emitted(k))
      <4>1. CASE EncOpen(t) BY <1>4, <4>1, OpenStamped
      <4>2. CASE ~ EncOpen(t)
        <5>1. \A u \in Threads : Quiet(u) BY <2>2, <4>2, SendMoves
        <5> QED BY <1>1, <1>3, <1>4, <5>1, QuietStamped
      <4> QED BY <4>1, <4>2
    <3> QED BY <1>1, <1>4, <3>1, <3>2, <3>3
  <2>3. CASE EndStep(t) \/ (t = Main /\ MainStep)
    <3>1. UNCHANGED <<nread, nout, taken, last_dts>> BY <2>3, OtherKeeps DEF codecVars
    <3>2. Emitted(k)' = Emitted(k) BY <1>5, <3>1
    <3>3. \A u \in Threads : Quiet(u) BY <2>3, OtherMoves
    <3>4. Stamped(todo'[Src(k)], k, Emitted(k)) BY <1>1, <1>3, <1>4, <3>3, QuietStamped
    <3> QED BY <1>1, <1>4, <3>1, <3>2, <3>4
  <2>4. CASE t # Main /\ LoopStep(t)
    <3>1. t \in Tasks BY <2>4 DEF Threads
    <3>2. last_dts' = last_dts BY <2>4, <3>1, LoopKeeps DEF schedVars
    <3> QED BY <1>1, <2>4, <3>1, <3>2, LoopDates
  <2> QED BY <1>6, <2>1, <2>2, <2>3, <2>4 DEF ThreadStep
<1>7. CASE UserStops
  <2>1. Main \in Threads BY DEF Threads
  <2>2. UNCHANGED <<nread, nout, taken, last_dts>> BY <1>7, <2>1, OtherKeeps DEF codecVars
  <2>3. Emitted(k)' = Emitted(k) BY <1>5, <2>2
  <2>4. \A u \in Threads : Quiet(u) BY <1>7, <2>1, OtherMoves
  <2>5. Stamped(todo'[Src(k)], k, Emitted(k)) BY <1>1, <1>3, <1>4, <2>4, QuietStamped
  <2> QED BY <1>1, <1>4, <2>2, <2>3, <2>5
<1>8. CASE UNCHANGED vars
  <2>1. UNCHANGED <<todo, nread, nout, taken, last_dts>> BY <1>8 DEF vars, codecVars, schedVars
  <2>2. Emitted(k)' = Emitted(k) BY <1>5, <2>1
  <2> QED BY <1>1, <1>4, <2>1, <2>2
<1> QED BY <1>6, <1>7, <1>8 DEF Next


-----------------------------------------------------------------------------
(* While the demuxer of one copied stream runs, or holds a packet that it  *)
(* was let through with, the stream is not too far ahead; only             *)
(* schedule_update_locked() called by itself, after its packet, has it     *)
(* stopped.                                                                *)
Roomy(k) == \A j \in Live : Room(last_dts, j, k)

Lead(k) ==
    LET d == Src(k)
    IN  /\ \A j \in Live : last_dts[k] <= last_dts[j] + SCHEDULE_TOLERANCE
        /\ Runs(d) \/ Sends(k) => Roomy(k)
        /\ ~ choked[d] /\ <<"waiter", d, TRUE>> \in schedule_lock.sets => schedule_lock.owner = d

LeadInv == ~ terminate => \A k \in Live : Alone(k) => Lead(k)

LEMMA LeadNext ==
    ASSUME NEW k, NEW d, d = Src(k)
    PROVE  Lead(k)' <=>
             /\ \A j \in Live' : last_dts'[k] <= last_dts'[j] + SCHEDULE_TOLERANCE
             /\ Runs(d)' \/ Sends(k)' => Roomy(k)'
             /\ ~ choked'[d] /\ <<"waiter", d, TRUE>> \in schedule_lock'.sets => schedule_lock'.owner = d
BY SameSource DEF Lead, Runs

LEMMA RoomStays ==
    ASSUME TypeInv, TypeInv', NEW k \in MuxStreams, source_finished \subseteq source_finished',
           \A j \in MuxStreams : last_dts[j] <= last_dts'[j]
    PROVE  /\ Live' \subseteq Live
           /\ Roomy(k) /\ last_dts'[k] = last_dts[k] => Roomy(k)'
           /\ (\A j \in Live : last_dts[k] <= last_dts[j] + SCHEDULE_TOLERANCE) /\ last_dts'[k] = last_dts[k] =>
                 \A j \in Live' : last_dts'[k] <= last_dts'[j] + SCHEDULE_TOLERANCE
           /\ Roomy(k) /\ last_dts'[k] = last_dts[k] + 1 =>
                 \A j \in Live' : last_dts'[k] <= last_dts'[j] + SCHEDULE_TOLERANCE
<1>1. SCHEDULE_TOLERANCE \in Nat \ {0} BY GraphAssumption
<1>2. \A j \in MuxStreams : last_dts[j] \in Nat /\ last_dts'[j] \in Nat
  BY SameSource DEF TypeInv, Typed, FlagsOK, MuxStreams, Ports, Inputs
<1>3. Live' \subseteq Live /\ Live \subseteq MuxStreams BY DEF Live, MuxStreams, Ports, Inputs
<1>4. ASSUME Roomy(k), last_dts'[k] = last_dts[k] PROVE Roomy(k)'
  <2>1. ASSUME NEW j \in Live' PROVE Room(last_dts', j, k)
    <3>1. j \in Live /\ j \in MuxStreams BY <1>3
    <3>2. Room(last_dts, j, k) BY <1>4, <3>1 DEF Roomy
    <3>3. last_dts[j] <= last_dts'[j] /\ last_dts[j] \in Nat /\ last_dts'[j] \in Nat /\ last_dts[k] \in Nat
      BY <1>2, <3>1
    <3> QED BY <1>1, <1>4, <3>2, <3>3 DEF Room, NOPTS
  <2> QED BY <2>1 DEF Roomy, Room, NOPTS
<1>5. ASSUME \A j \in Live : last_dts[k] <= last_dts[j] + SCHEDULE_TOLERANCE, last_dts'[k] = last_dts[k],
             NEW j \in Live'
      PROVE  last_dts'[k] <= last_dts'[j] + SCHEDULE_TOLERANCE
  <2>1. j \in Live /\ j \in MuxStreams BY <1>3
  <2>2. last_dts[j] <= last_dts'[j] /\ last_dts[j] \in Nat /\ last_dts'[j] \in Nat /\ last_dts[k] \in Nat
    BY <1>2, <2>1
  <2> QED BY <1>1, <1>5, <2>1, <2>2
<1>6. ASSUME Roomy(k), last_dts'[k] = last_dts[k] + 1, NEW j \in Live'
      PROVE  last_dts'[k] <= last_dts'[j] + SCHEDULE_TOLERANCE
  <2>1. j \in Live /\ j \in MuxStreams BY <1>3
  <2>2. last_dts[j] <= last_dts'[j] /\ last_dts[j] \in Nat /\ last_dts'[j] \in Nat /\ last_dts[k] \in Nat
    BY <1>2, <2>1
  <2>3. Room(last_dts, j, k) BY <1>6, <2>1 DEF Roomy
  <2> QED BY <1>1, <1>6, <2>2, <2>3 DEF Room, NOPTS
<1> QED BY <1>3, <1>4, <1>5, <1>6

LEMMA LeadSame ==
    ASSUME TypeInv, NEW k, Alone(k), NEW d, d = Src(k), Lead(k),
           UNCHANGED <<last_dts, source_finished, schedule_lock, choked>>,
           Sends(k)' => Sends(k) \/ (~ choked[d] /\ ~ AtLock(d))
    PROVE  Lead(k)'
<1>1. UNCHANGED <<last_dts, source_finished, schedule_lock, choked>> OBVIOUS
<1>2. Live' = Live BY <1>1 DEF Live, MuxStreams, Ports, Inputs
<1>3. Roomy(k)' <=> Roomy(k) BY <1>1, <1>2 DEF Roomy, Room, NOPTS
<1>4. Runs(d)' <=> Runs(d) BY <1>1 DEF Runs
<1>5. ASSUME ~ choked[d], ~ AtLock(d) PROVE Roomy(k)
  <2>1. d # None BY AloneIs
  <2>2. schedule_lock.owner # d BY <1>5, <2>1 DEF TypeInv, LockHead
  <2>3. <<"waiter", d, TRUE>> \notin schedule_lock.sets BY <1>5, <2>2 DEF Lead
  <2>4. Runs(d) BY <1>5, <2>3 DEF Runs
  <2> QED BY <2>4 DEF Lead
<1>6. Runs(d)' \/ Sends(k)' => Roomy(k)' BY <1>3, <1>4, <1>5 DEF Lead
<1>7. /\ \A j \in Live' : last_dts'[k] <= last_dts'[j] + SCHEDULE_TOLERANCE
      /\ ~ choked'[d] /\ <<"waiter", d, TRUE>> \in schedule_lock'.sets => schedule_lock'.owner = d
  BY <1>1, <1>2 DEF Lead
<1> QED BY <1>6, <1>7, LeadNext

LEMMA LeadUpdate ==
    ASSUME IInv, TypeInv, TypeInv', NEW k \in Live', Alone(k), NEW d, d = Src(k), Lead(k),
           NEW t \in Threads, schedule_lock.owner = None, choked' = choked, ~ terminate, ScheduleUpdate(t),
           source_finished \subseteq source_finished', \A j \in MuxStreams : last_dts[j] <= last_dts'[j],
           last_dts'[k] = last_dts[k] \/ (t = d /\ Sends(k) /\ last_dts'[k] = last_dts[k] + 1),
           Sends(k)' => t # d /\ Sends(k)
    PROVE  Lead(k)'
<1>1. d \in Waiters /\ k \in MuxStreams BY AloneIs DEF Alone
<1>2. schedule_lock.sets = {} /\ choked[d] \in BOOLEAN BY <1>1 DEF IInv, LockOK
<1>3. PICK un, ws :
        /\ un = Unchoked(MuxStreams \ source_finished', last_dts',
                         receive_finished' \ send_finished', task_exited', best_input')
        /\ ws = {w \in Waiters : choked[w] # (w \notin un)}
        /\ IF terminate \/ ws = {} THEN schedule_lock' = schedule_lock
           ELSE schedule_lock' = [owner |-> t, sets |-> Updates(ws)]
  BY DEF ScheduleUpdate
<1>4. d \in un <=> Roomy(k)'
  <2>1. Live' = MuxStreams \ source_finished' BY DEF Live, MuxStreams, Ports, Inputs
  <2>2. /\ last_dts' \in [MuxStreams -> Nat]
        /\ receive_finished' \subseteq Ports(Filter)
        /\ DOMAIN best_input' = Filter /\ \A f \in Filter : best_input'[f] \in 0 .. NbIn[f]
    BY DEF TypeInv, Typed, FlagsOK, MuxStreams, Ports, Inputs, Filter
  <2>3. receive_finished' \ send_finished' \in SUBSET Ports(Filter) BY <2>2
  <2>4. Live' \in SUBSET MuxStreams BY <2>1
  <2>5. d \in Unchoked(Live', last_dts', receive_finished' \ send_finished', task_exited', best_input') <=>
          \A j \in Live' : Room(last_dts', j, k)
    BY <2>2, <2>3, <2>4, Decision
  <2>6. Roomy(k)' <=> \A j \in Live' : Room(last_dts', j, k) BY DEF Roomy, Room, NOPTS
  <2> QED BY <1>3, <2>1, <2>5, <2>6
<1>5. d \in ws <=> choked[d] = (d \in un) BY <1>1, <1>2, <1>3
<1>6. schedule_lock'.sets = IF ws = {} THEN {} ELSE Updates(ws)
  <2>1. IF ws = {} THEN schedule_lock' = schedule_lock
        ELSE schedule_lock' = [owner |-> t, sets |-> Updates(ws)]
    BY <1>3
  <2> QED BY <1>2, <2>1
<1>7. \A v : <<"waiter", d, v>> \in schedule_lock'.sets <=> d \in ws /\ v = ~ choked[d]
  <2>1. \A v : <<"waiter", d, v>> \in Updates(ws) <=> d \in ws /\ v = ~ choked[d] BY DEF Updates
  <2> QED BY <1>6, <2>1
<1>8. Runs(d)' => d \in un
  <2>1. Runs(d)' <=> \/ <<"waiter", d, FALSE>> \in schedule_lock'.sets
                     \/ ~ choked[d] /\ <<"waiter", d, TRUE>> \notin schedule_lock'.sets
    BY DEF Runs
  <2>2. CASE choked[d] BY <1>2, <1>5, <1>7, <2>1, <2>2
  <2>3. CASE ~ choked[d]
    <3>1. (~ choked[d]) = TRUE /\ FALSE # TRUE BY <2>3
    <3>2. Runs(d)' => d \notin ws BY <1>7, <2>1, <3>1
    <3> QED BY <1>2, <1>5, <2>3, <3>2
  <2> QED BY <2>2, <2>3
<1>9. ASSUME t # d PROVE Runs(d) \/ Sends(k) => Roomy(k)'
  <2>1. Runs(d) \/ Sends(k) => Roomy(k) BY DEF Lead
  <2>2. last_dts'[k] = last_dts[k] BY <1>9
  <2> QED BY <1>1, <2>1, <2>2, RoomStays
<1>10. ~ choked'[d] /\ <<"waiter", d, TRUE>> \in schedule_lock'.sets => schedule_lock'.owner = d
  <2>1. ASSUME ~ choked[d], <<"waiter", d, TRUE>> \in schedule_lock'.sets PROVE schedule_lock'.owner = d
    <3>1. d \in ws BY <1>7, <2>1
    <3>2. d \notin un BY <1>2, <1>5, <2>1, <3>1
    <3>3. Runs(d) BY <1>2, <2>1 DEF Runs
    <3>4. t = d BY <1>4, <1>9, <3>2, <3>3
    <3> QED BY <1>3, <3>1, <3>4
  <2> QED BY <2>1
<1>11. Runs(d)' \/ Sends(k)' => Roomy(k)' BY <1>4, <1>8, <1>9
<1>12. \A j \in Live' : last_dts'[k] <= last_dts'[j] + SCHEDULE_TOLERANCE
  <2>1. CASE last_dts'[k] = last_dts[k]
    <3>1. \A j \in Live : last_dts[k] <= last_dts[j] + SCHEDULE_TOLERANCE BY DEF Lead
    <3> QED BY <1>1, <2>1, <3>1, RoomStays
  <2>2. CASE Sends(k) /\ last_dts'[k] = last_dts[k] + 1
    <3>1. Roomy(k) BY <2>2 DEF Lead
    <3> QED BY <1>1, <2>2, <3>1, RoomStays
  <2> QED BY <2>1, <2>2
<1> QED BY <1>10, <1>11, <1>12, LeadNext

LEMMA LeadApply ==
    ASSUME IInv, TypeInv, NEW k, Alone(k), NEW d, d = Src(k), Lead(k),
           NEW t \in Threads, ScheduleApply(t), Sends(k)' => Sends(k)
    PROVE  Lead(k)'
<1>a. d \in Waiters /\ d \in Demux /\ t # None
  BY AloneIs, SchedulerAssumption DEF Threads, Main, None
<1>1. PICK S, u : /\ S = schedule_lock.sets /\ u = NextUpdate(S)
                  /\ choked' = IF u[1] = "waiter" THEN [choked EXCEPT ![u[2]] = u[3]] ELSE choked
                  /\ IF S \ {u} = {} THEN schedule_lock' = Unlocked
                     ELSE schedule_lock' = [schedule_lock EXCEPT !.sets = S \ {u}]
  BY DEF ScheduleApply
<1>2. S \in SUBSET AllWrites /\ S # {} /\ choked \in [Waiters -> BOOLEAN] /\ Writes(S, d)
  BY <1>a, <1>1 DEF IInv, LockOK, ScheduleApply
<1>3. u \in S /\ u \in AllWrites BY <1>1, <1>2, NextUpdateIsFirst
<1>4. schedule_lock'.sets = S \ {u} /\ (S \ {u} # {} => schedule_lock'.owner = schedule_lock.owner)
  <2>1. schedule_lock = [owner |-> schedule_lock.owner, sets |-> schedule_lock.sets] BY DEF IInv, LockOK
  <2>2. CASE S \ {u} = {} BY <1>1, <2>2 DEF Unlocked
  <2>3. CASE S \ {u} # {}
    <3>1. schedule_lock' = [schedule_lock EXCEPT !.sets = S \ {u}] BY <1>1, <2>3
    <3> QED BY <2>1, <2>3, <3>1
  <2> QED BY <2>2, <2>3
<1>5. u # <<"waiter", d, FALSE>> /\ u # <<"waiter", d, TRUE>> => choked'[d] = choked[d]
  <2>1. ASSUME u # <<"waiter", d, FALSE>>, u # <<"waiter", d, TRUE>>, u[1] = "waiter" PROVE u[2] # d
    <3>1. u = <<"waiter", u[2], u[3]>> /\ u[3] \in BOOLEAN BY <1>3, <2>1 DEF AllWrites
    <3> QED BY <2>1, <3>1
  <2>2. CASE u[1] = "waiter" BY <1>1, <1>2, <1>a, <2>1, <2>2
  <2>3. CASE u[1] # "waiter" BY <1>1, <2>3
  <2> QED BY <2>2, <2>3
<1>6. u = <<"waiter", d, TRUE>> => choked'[d]
  BY <1>1, <1>2, <1>a
<1>7. ASSUME Runs(d)' PROVE Runs(d)
  <2>1. CASE <<"waiter", d, FALSE>> \in S BY <1>1, <2>1 DEF Runs
  <2>2. CASE <<"waiter", d, FALSE>> \notin S
    <3>1. ~ choked'[d] /\ <<"waiter", d, TRUE>> \notin S \ {u} BY <1>4, <1>7, <2>2 DEF Runs
    <3>2. u # <<"waiter", d, TRUE>> /\ u # <<"waiter", d, FALSE>> BY <1>3, <1>6, <2>2, <3>1
    <3>3. <<"waiter", d, TRUE>> \notin S BY <3>1, <3>2
    <3> QED BY <1>1, <1>5, <3>1, <3>2, <3>3 DEF Runs
  <2> QED BY <2>1, <2>2
<1>8. ASSUME ~ choked'[d], <<"waiter", d, TRUE>> \in schedule_lock'.sets PROVE schedule_lock'.owner = d
  <2>1. <<"waiter", d, TRUE>> \in S /\ <<"waiter", d, TRUE>> # u BY <1>4, <1>8
  <2>2. <<"waiter", d, FALSE>> \notin S BY <1>2, <2>1 DEF Writes
  <2>3. ~ choked[d] BY <1>3, <1>5, <1>8, <2>1, <2>2
  <2>4. schedule_lock.owner = d BY <1>1, <2>1, <2>3 DEF Lead
  <2> QED BY <1>4, <1>8, <2>4
<1>9. UNCHANGED <<last_dts, source_finished>> BY DEF ScheduleApply
<1>10. Live' = Live BY <1>9 DEF Live, MuxStreams, Ports, Inputs
<1>11. Roomy(k)' <=> Roomy(k) BY <1>9, <1>10 DEF Roomy, Room, NOPTS
<1>12. Runs(d)' \/ Sends(k)' => Roomy(k)' BY <1>7, <1>11 DEF Lead
<1>13. \A j \in Live' : last_dts'[k] <= last_dts'[j] + SCHEDULE_TOLERANCE BY <1>9, <1>10 DEF Lead
<1> QED BY <1>8, <1>12, <1>13, LeadNext

LEMMA AloneSame == ASSUME NEW k PROVE Alone(k)' <=> Alone(k)
<1>1. Src(k)' = Src(k) BY SameSource
<1>2. Dsts(Src(k))' = Dsts(Src(k)) BY <1>1 DEF Dsts
<1> QED BY <1>1, <1>2 DEF Alone, Copied, MuxStreams, Ports, Inputs

LEMMA LeadLock ==
    ASSUME IInv, TypeInv, TypeInv', NEW k \in Live', Alone(k), NEW d, d = Src(k), Lead(k),
           NEW t \in Threads, LockStep(t), ~ terminate, \A j \in MuxStreams : last_dts[j] <= last_dts'[j],
           last_dts'[k] = last_dts[k] \/ (t = d /\ Sends(k) /\ last_dts'[k] = last_dts[k] + 1),
           Sends(k)' => t # d /\ Sends(k)
    PROVE  Lead(k)'
<1>1. source_finished \subseteq source_finished' BY LockKeeps
<1>2. ASSUME schedule_lock.owner = None, choked' = choked, ScheduleUpdate(t) PROVE Lead(k)'
  BY <1>1, <1>2, LeadUpdate
<1>3. CASE \/ ScheduleFirst(t) \/ SetLastDts(t) \/ SourceFinished(t) \/ MuxDone(t)
           \/ FilterReceiveFinish(t) \/ SetBestInput(t) \/ TaskExited(t)
  <2>1. schedule_lock.owner = None /\ choked' = choked /\ ScheduleUpdate(t)
    BY <1>3 DEF ScheduleFirst, SetLastDts, SourceFinished, MuxDone, FilterReceiveFinish, SetBestInput,
                TaskExited, SchedUnchanged, Locking
  <2> QED BY <1>2, <2>1
<1>4. CASE FilterSendFinished(t)
  <2>1. schedule_lock.owner = None BY <1>4 DEF FilterSendFinished, Locking
  <2>2. UNCHANGED schedVars \/ (choked' = choked /\ ScheduleUpdate(t)) BY <1>4 DEF FilterSendFinished
  <2>3. UNCHANGED schedVars => UNCHANGED <<last_dts, source_finished, schedule_lock, choked>> BY DEF schedVars
  <2> QED BY <1>2, <2>1, <2>2, <2>3, LeadSame
<1>5. CASE ScheduleApply(t) BY <1>5, LeadApply
<1> QED BY <1>3, <1>4, <1>5 DEF LockStep

(* Before sch_stop() only the lock's owner chokes anyone.                  *)
LEMMA StopTells ==
    ASSUME StopInv, SchStop
    PROVE  terminate'
<1>1. \/ terminate'
      \/ (Next1(Main, "stop_waiter") \/ Next1(Main, "unfreeze")) /\ terminate' = terminate
  BY DEF SchStop
<1>2. todo[Main] \in MainOps /\ todo[Main] # <<>> => Head(todo[Main]).op \in {"schedule", "terminate"}
  BY MainHead DEF MainOps
<1>3. Next1(Main, "stop_waiter") \/ Next1(Main, "unfreeze") => terminate BY <1>2 DEF StopInv, Next1
<1> QED BY <1>1, <1>3

LEMMA LeadStep ==
    ASSUME IInv, TypeInv, TypeInv', ListInv, StopInv, NEW k, Alone(k), Shape(k),
           NEW t \in Threads, ThreadStep(t) \/ (t = Main /\ UserStops),
           \A j \in MuxStreams : last_dts[j] <= last_dts'[j]
    PROVE  Shape(k)' /\ (~ terminate' /\ ~ terminate /\ k \in Live' /\ Lead(k) => Lead(k)')
<1>1. PICK d : d = Src(k) OBVIOUS
<1>2. d \in Threads /\ d # Main BY <1>1, AloneIs
<1>3. /\ Shape(k)'
      /\ Sends(k)' => IF t = d THEN ~ LockStep(d) /\ (Sends(k) \/ (~ choked[d] /\ ~ AtLock(d))) ELSE Sends(k)
      /\ SetLastDts(t) => \/ t = d /\ Sends(k) /\ last_dts'[k] = last_dts[k] + 1
                          \/ last_dts'[k] = last_dts[k]
  <2>1. CASE t = d BY <1>1, <1>2, <2>1, ShapeOwn
  <2>2. CASE t # d BY <1>1, <1>2, <2>2, ShapeOther
  <2> QED BY <2>1, <2>2
<1> SUFFICES ASSUME ~ terminate', ~ terminate, k \in Live', Lead(k) PROVE Lead(k)' BY <1>3
<1>4. ASSUME UNCHANGED <<last_dts, source_finished, schedule_lock, choked>> PROVE Lead(k)'
  BY <1>1, <1>3, <1>4, LeadSame
<1>5. CASE LockStep(t)
  <2>1. last_dts'[k] = last_dts[k] \/ (t = d /\ Sends(k) /\ last_dts'[k] = last_dts[k] + 1)
    BY <1>3, <1>5, LockKeeps
  <2>2. Sends(k)' => t # d /\ Sends(k) BY <1>3, <1>5
  <2> QED BY <1>1, <1>5, <2>1, <2>2, LeadLock
<1>6. CASE SendStep(t) BY <1>4, <1>6, SendKeeps DEF schedVars
<1>7. CASE EndStep(t) \/ (t = Main /\ (MainStep \/ UserStops)) BY <1>4, <1>7, OtherKeeps, StopTells
<1>8. CASE t # Main /\ LoopStep(t)
  <2>1. t \in Tasks BY <1>8 DEF Threads
  <2> QED BY <1>4, <1>8, <2>1, LoopKeeps DEF schedVars
<1> QED BY <1>5, <1>6, <1>7, <1>8 DEF ThreadStep

LEMMA FlagsStay ==
    ASSUME TypeInv, NEW t \in Threads, ThreadStep(t) \/ (t = Main /\ UserStops)
    PROVE  source_finished \subseteq source_finished' /\ (terminate => terminate')
<1>1. CASE LockStep(t) BY <1>1, LockKeeps DEF endVars
<1>2. CASE SendStep(t) BY <1>2, SendKeeps DEF schedVars, endVars
<1>3. CASE EndStep(t) \/ (t = Main /\ (MainStep \/ UserStops))
  <2>1. terminate => terminate'
    <3>1. SchStop => terminate' \/ terminate' = terminate BY DEF SchStop
    <3> QED BY <1>3, <3>1, OtherKeeps
  <2> QED BY <1>3, <2>1, OtherKeeps
<1>4. CASE t # Main /\ LoopStep(t)
  <2>1. t \in Tasks BY <1>4 DEF Threads
  <2> QED BY <1>4, <2>1, LoopKeeps DEF schedVars, endVars
<1> QED BY <1>1, <1>2, <1>3, <1>4 DEF ThreadStep

LEMMA LeadInvStep ==
    ASSUME IInv, TypeInv, TypeInv', ListInv, StopInv, ShapeInv, LeadInv, [Next]_vars,
           \A j \in MuxStreams : last_dts[j] <= last_dts'[j]
    PROVE  ShapeInv' /\ LeadInv'
<1> SUFFICES ASSUME NEW k \in MuxStreams, Alone(k)
             PROVE  Shape(k)' /\ (~ terminate' /\ k \in Live' => Lead(k)')
  <2>1. MuxStreams' = MuxStreams /\ Live' \subseteq MuxStreams /\ \A k : Alone(k)' <=> Alone(k)
    BY AloneSame DEF Live, MuxStreams, Ports, Inputs
  <2> QED BY <2>1 DEF ShapeInv, LeadInv
<1>1. Shape(k) BY DEF ShapeInv
<1>2. CASE UNCHANGED vars
  <2>1. /\ UNCHANGED <<todo, nread, dst_finished, last_dts, schedule_lock, source_finished, choked, terminate>>
    BY <1>2 DEF vars, codecVars, schedVars, endVars
  <2>2. PICK d : d = Src(k) OBVIOUS
  <2>3. Shape(k)' BY <1>1, <2>1, <2>2, ShapeNext DEF Shape
  <2>4. Sends(k)' => Sends(k) BY <2>1, <2>2, ShapeNext DEF Sends
  <2>5. Live' = Live BY <2>1 DEF Live, MuxStreams, Ports, Inputs
  <2>6. ~ terminate' /\ k \in Live' => Lead(k) BY <2>1, <2>5 DEF LeadInv
  <2> QED BY <2>1, <2>2, <2>3, <2>4, <2>6, LeadSame
<1>3. CASE \E t \in Threads : ThreadStep(t) \/ (t = Main /\ UserStops)
  <2>1. PICK t \in Threads : ThreadStep(t) \/ (t = Main /\ UserStops) BY <1>3
  <2>2. Shape(k)' /\ (~ terminate' /\ ~ terminate /\ k \in Live' /\ Lead(k) => Lead(k)')
    BY <1>1, <2>1, LeadStep
  <2>3. terminate => terminate' BY <2>1, FlagsStay
  <2>4. k \in Live' => k \in Live
    <3>1. source_finished \subseteq source_finished' BY <2>1, FlagsStay
    <3> QED BY <3>1 DEF Live, MuxStreams, Ports, Inputs
  <2>5. ~ terminate' /\ k \in Live' => Lead(k) BY <2>3, <2>4 DEF LeadInv
  <2> QED BY <2>2, <2>3, <2>5
<1>4. Main \in Threads BY DEF Threads
<1> QED BY <1>2, <1>3, <1>4 DEF Next

LEMMA InitLead ==
    ASSUME Init
    PROVE  DtsInv /\ ShapeInv /\ LeadInv
<1>1. \A k \in MuxStreams : last_dts[k] = NOPTS BY DEF Init
<1>2. schedule_lock.sets = {} BY DEF Init, Unlocked
<1>3. SCHEDULE_TOLERANCE \in Nat /\ NOPTS = 0 BY GraphAssumption DEF NOPTS
<1>4. TypeInv /\ LineInv BY InitTypeInv, InitLine
<1>5. ASSUME NEW k \in MuxStreams PROVE last_dts[k] <= Emitted(k) /\ Stamped(todo[Src(k)], k, Emitted(k))
  <2>1. Src(k) \in Threads /\ k \in Lined BY LinedIs
  <2>2. Emitted(k) \in Nat BY <1>4, <2>1, EmittedType
  <2>3. \A o \in Range(todo[Src(k)]) : o.op \in {"schedule", "open"}
    <3>1. PICK x, y : /\ x = Op("schedule", On(Src(k)), NOPTS) /\ y = Op("open", On(Src(k)), NOPTS)
                      /\ todo[Src(k)] \in {<<>>, <<x>>, <<y>>}
      BY <2>1 DEF Init
    <3>2. x.op = "schedule" /\ y.op = "open" BY <3>1 DEF Op
    <3>3. Range(todo[Src(k)]) \in {{}, {x}, {y}} BY <3>1, RangeSmall
    <3> QED BY <3>2, <3>3
  <2> QED BY <1>1, <1>3, <2>2, <2>3 DEF Stamped, Dates
<1>6. ASSUME NEW k \in MuxStreams, Alone(k) PROVE Shape(k) /\ Lead(k)
  <2>1. PICK d : d = Src(k) OBVIOUS
  <2>2. d \in Demux /\ d \in Threads /\ d # Main /\ d \notin Encoders /\ DOMAIN Outs[d] = {1}
    BY <1>6, <2>1, AloneIs, Kinds
  <2>3. todo[d] = <<>> BY <2>2 DEF Init
  <2>4. nread[d][1] = 0 BY <2>2 DEF Init
  <2>5. Shape(k) BY <1>1, <1>3, <2>1, <2>3, <2>4 DEF Shape, Shaped
  <2>6. Roomy(k) BY <1>1 DEF Roomy, Room
  <2>7. \A j \in Live : last_dts[k] <= last_dts[j] + SCHEDULE_TOLERANCE BY <1>1, <1>3 DEF Live
  <2> QED BY <1>2, <2>5, <2>6, <2>7 DEF Lead
<1> QED BY <1>5, <1>6 DEF DtsInv, ShapeInv, LeadInv, Live

(* Until sch_stop(), no stream that is all that its demuxer is copied to      *)
(* runs further ahead of an unfinished stream than the tolerance:             *)
(* schedule_update_locked() chokes its demuxer as soon as trailing_dts() is   *)
(* that far behind, nobody else chokes or lets it run, and waiter_wait(),     *)
(* which it passes once per packet, keeps it from sending another one.        *)
THEOREM LeadBounded == Spec => []LeadIsBounded
<1> DEFINE J == /\ IInv /\ TypeInv /\ ListInv /\ LineInv /\ MarksInv /\ StopInv
                /\ DtsInv /\ ShapeInv /\ LeadInv
<1>1. Init => J BY InitIInv, InitTypeInv, InitList, InitLine, InitFed, InitLead
<1>2. ASSUME J, [Next]_vars PROVE J'
  <2>1. IInv' /\ TypeInv' /\ ListInv' /\ LineInv' /\ MarksInv' /\ StopInv'
    BY <1>2, IInvStep, TypeInvStep, ListInvStep, LineInvStep, StopInvStep
  <2>2. DtsInv' /\ \A j \in MuxStreams : last_dts[j] <= last_dts'[j] BY <1>2, DtsInvStep
  <2> QED BY <1>2, <2>1, <2>2, LeadInvStep
<1>3. J => LeadIsBounded
  <2> SUFFICES ASSUME LeadInv, ~ terminate, NEW j \in Live, NEW k \in Live,
                      Copied(k), Dsts(Src(k)) = {k}
               PROVE  last_dts[k] <= last_dts[j] + SCHEDULE_TOLERANCE
    BY DEF LeadIsBounded, Live
  <2>1. Alone(k) BY DEF Alone, Live
  <2> QED BY <2>1 DEF LeadInv, Lead
<1> HIDE DEF J
<1> QED BY <1>1, <1>2, <1>3, PTL DEF Spec
=============================================================================
