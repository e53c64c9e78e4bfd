---------------------------- MODULE RfidReportProofs ----------------------------
(* Proofs about RfidScan: where the bytes a scan evaluates come from, and so   *)
(* what its report can be.                                                     *)
EXTENDS RfidProofs, WellFoundedInduction

--------------------------------------------------------------------------------
(* What is left of a sequence that lost some of its bytes *)

\* s is t without some of its elements; g says where each of them was, which
\* is never before the place it has now.
PartOf(s, t) ==
    \E g \in [1 .. Len(s) -> 1 .. Len(t)] :
        /\ \A i \in 1 .. Len(s) : i <= g[i] /\ s[i] = t[g[i]]
        /\ \A i, j \in 1 .. Len(s) : i < j => g[i] < g[j]

LEMMA PartOfItself ==
    ASSUME NEW s
    PROVE  PartOf(s, s)
<1> DEFINE g == [i \in 1 .. Len(s) |-> i]
<1>1. g \in [1 .. Len(s) -> 1 .. Len(s)]
    OBVIOUS
<1>2. \A i \in 1 .. Len(s) : i <= g[i] /\ s[i] = s[g[i]]
    OBVIOUS
<1>3. \A i, j \in 1 .. Len(s) : i < j => g[i] < g[j]
    OBVIOUS
<1> HIDE DEF g
<1>4. QED
    BY <1>1, <1>2, <1>3 DEF PartOf

LEMMA PartOfPart ==
    ASSUME NEW r, NEW s, NEW t, PartOf(r, s), PartOf(s, t)
    PROVE  PartOf(r, t)
<1>1. PICK g \in [1 .. Len(r) -> 1 .. Len(s)] :
         /\ \A i \in 1 .. Len(r) : i <= g[i] /\ r[i] = s[g[i]]
         /\ \A i, j \in 1 .. Len(r) : i < j => g[i] < g[j]
    BY DEF PartOf
<1>2. PICK h \in [1 .. Len(s) -> 1 .. Len(t)] :
         /\ \A i \in 1 .. Len(s) : i <= h[i] /\ s[i] = t[h[i]]
         /\ \A i, j \in 1 .. Len(s) : i < j => h[i] < h[j]
    BY DEF PartOf
<1> DEFINE f == [i \in 1 .. Len(r) |-> h[g[i]]]
<1>3. f \in [1 .. Len(r) -> 1 .. Len(t)]
    BY <1>1, <1>2
<1>4. ASSUME NEW i \in 1 .. Len(r) PROVE i <= f[i] /\ r[i] = t[f[i]]
    <2>1. /\ g[i] \in 1 .. Len(s) /\ i <= g[i] /\ r[i] = s[g[i]]
        BY <1>1
    <2>2. h[g[i]] \in 1 .. Len(t) /\ g[i] <= h[g[i]] /\ s[g[i]] = t[h[g[i]]]
        BY <1>2, <2>1
    <2>3. i <= h[g[i]]
        BY <2>1, <2>2
    <2>4. QED
        BY <2>1, <2>2, <2>3
<1>5. ASSUME NEW i \in 1 .. Len(r), NEW j \in 1 .. Len(r), i < j PROVE f[i] < f[j]
    BY <1>1, <1>2, <1>5
<1> HIDE DEF f
<1>6. QED
    BY <1>3, <1>4, <1>5 DEF PartOf

\* Two parts joined are a part of the whole joined.
LEMMA PartsJoined ==
    ASSUME NEW a \in Seq(Bytes), NEW b \in Seq(Bytes),
           NEW s \in Seq(Bytes), NEW t \in Seq(Bytes),
           PartOf(a, s), PartOf(b, t)
    PROVE  PartOf(a \o b, s \o t)
<1>1. PICK g \in [1 .. Len(a) -> 1 .. Len(s)] :
         /\ \A i \in 1 .. Len(a) : i <= g[i] /\ a[i] = s[g[i]]
         /\ \A i, j \in 1 .. Len(a) : i < j => g[i] < g[j]
    BY DEF PartOf
<1>2. PICK h \in [1 .. Len(b) -> 1 .. Len(t)] :
         /\ \A i \in 1 .. Len(b) : i <= h[i] /\ b[i] = t[h[i]]
         /\ \A i, j \in 1 .. Len(b) : i < j => h[i] < h[j]
    BY DEF PartOf
<1> DEFINE ab == a \o b
           st == s \o t
           f == [i \in 1 .. Len(ab) |-> IF i <= Len(a) THEN g[i] ELSE Len(s) + h[i - Len(a)]]
<1>3. /\ Len(a) \in Nat /\ Len(b) \in Nat /\ Len(s) \in Nat /\ Len(t) \in Nat
    BY LenProperties
<1>4. /\ Len(ab) = Len(a) + Len(b)
      /\ \A i \in 1 .. Len(a) + Len(b) : ab[i] = IF i <= Len(a) THEN a[i] ELSE b[i - Len(a)]
    BY ConcatProperties
<1>5. /\ Len(st) = Len(s) + Len(t)
      /\ \A i \in 1 .. Len(s) + Len(t) : st[i] = IF i <= Len(s) THEN s[i] ELSE t[i - Len(s)]
    BY ConcatProperties
<1> HIDE DEF ab, st
<1>6. Len(a) <= Len(s)
    <2>1. CASE Len(a) = 0
        BY <1>3, <2>1
    <2>2. CASE Len(a) # 0
        <3>1. Len(a) \in 1 .. Len(a)
            BY <1>3, <2>2
        <3>2. g[Len(a)] \in 1 .. Len(s) /\ Len(a) <= g[Len(a)]
            BY <1>1, <3>1
        <3>3. QED
            BY <1>3, <3>2
    <2>3. QED
        BY <2>1, <2>2
<1>7. ASSUME NEW i \in 1 .. Len(ab)
      PROVE  f[i] \in 1 .. Len(st) /\ i <= f[i] /\ ab[i] = st[f[i]]
    <2>1. CASE i <= Len(a)
        <3>1. i \in 1 .. Len(a)
            BY <1>3, <1>4, <2>1
        <3>2. g[i] \in 1 .. Len(s) /\ i <= g[i] /\ a[i] = s[g[i]]
            BY <1>1, <3>1
        <3>3. f[i] = g[i] /\ ab[i] = a[i]
            BY <1>3, <1>4, <2>1
        <3>4. f[i] \in 1 .. Len(s) + Len(t) /\ f[i] <= Len(s)
            BY <1>3, <3>2, <3>3
        <3>5. st[f[i]] = s[f[i]]
            BY <1>5, <3>4
        <3>6. QED
            BY <1>5, <3>2, <3>3, <3>4, <3>5
    <2>2. CASE ~(i <= Len(a))
        <3> DEFINE k == i - Len(a)
        <3>1. k \in 1 .. Len(b) /\ i = Len(a) + k
            BY <1>3, <1>4, <2>2
        <3>2. h[k] \in 1 .. Len(t) /\ k <= h[k] /\ b[k] = t[h[k]]
            BY <1>2, <3>1
        <3>3. f[i] = Len(s) + h[k] /\ ab[i] = b[k]
            BY <1>3, <1>4, <2>2
        <3>4. /\ f[i] \in 1 .. Len(s) + Len(t) /\ ~(f[i] <= Len(s)) /\ f[i] - Len(s) = h[k]
              /\ i <= f[i]
            BY <1>3, <1>6, <3>1, <3>2, <3>3
        <3>5. st[f[i]] = t[h[k]]
            BY <1>5, <3>4
        <3>6. QED
            BY <1>5, <3>2, <3>3, <3>4, <3>5
    <2>3. QED
        BY <2>1, <2>2
<1>8. ASSUME NEW i \in 1 .. Len(ab), NEW j \in 1 .. Len(ab), i < j PROVE f[i] < f[j]
    <2>1. CASE j <= Len(a)
        <3>1. i \in 1 .. Len(a) /\ j \in 1 .. Len(a) /\ i <= Len(a)
            BY <1>3, <1>4, <1>8, <2>1
        <3>2. QED
            BY <1>1, <1>8, <2>1, <3>1
    <2>2. CASE i <= Len(a) /\ ~(j <= Len(a))
        <3>1. i \in 1 .. Len(a) /\ j - Len(a) \in 1 .. Len(b)
            BY <1>3, <1>4, <2>2
        <3>2. g[i] \in 1 .. Len(s) /\ h[j - Len(a)] \in 1 .. Len(t)
            BY <1>1, <1>2, <3>1
        <3>3. f[i] = g[i] /\ f[j] = Len(s) + h[j - Len(a)]
            BY <2>2
        <3>4. QED
            BY <1>3, <3>2, <3>3
    <2>3. CASE ~(i <= Len(a))
        <3>1. /\ i - Len(a) \in 1 .. Len(b) /\ j - Len(a) \in 1 .. Len(b)
              /\ i - Len(a) < j - Len(a) /\ ~(j <= Len(a))
            BY <1>3, <1>4, <1>8, <2>3
        <3> DEFINE k == i - Len(a)
                   l == j - Len(a)
        <3> HIDE DEF k, l
        <3>2. k \in 1 .. Len(b) /\ l \in 1 .. Len(b) /\ k < l
            BY <3>1 DEF k, l
        <3>3. h[k] \in 1 .. Len(t) /\ h[l] \in 1 .. Len(t) /\ h[k] < h[l]
            BY <1>2, <3>2
        <3>4. /\ h[i - Len(a)] \in Nat /\ h[j - Len(a)] \in Nat
              /\ h[i - Len(a)] < h[j - Len(a)]
            BY <1>3, <3>3 DEF k, l
        <3>5. f[i] = Len(s) + h[i - Len(a)] /\ f[j] = Len(s) + h[j - Len(a)]
            BY <2>3, <3>1
        <3>6. QED
            BY <1>3, <3>4, <3>5
    <2>4. QED
        BY <1>3, <1>4, <1>8, <2>1, <2>2, <2>3
<1>9. f \in [1 .. Len(ab) -> 1 .. Len(st)]
    BY <1>7
<1> HIDE DEF f
<1>10. PartOf(ab, st)
    BY <1>7, <1>8, <1>9 DEF PartOf
<1>11. QED
    BY <1>10 DEF ab, st

\* A piece is a part.
LEMMA PieceIsPart ==
    ASSUME NEW s \in Seq(Bytes), NEW m \in 1 .. Len(s) + 1, NEW n \in m - 1 .. Len(s)
    PROVE  PartOf(SubSeq(s, m, n), s)
<1> DEFINE r == SubSeq(s, m, n)
           g == [i \in 1 .. Len(r) |-> m + i - 1]
<1>1. Len(s) \in Nat
    BY LenProperties
<1>2. Len(r) = n - m + 1 /\ \A i \in 1 .. n - m + 1 : r[i] = s[m + i - 1]
    <2>1. \A i \in m .. n : s[i] \in Bytes
        BY <1>1
    <2>2. n - m + 1 \in Nat /\ Len(r) = IF m <= n THEN n - m + 1 ELSE 0
        BY <1>1, <2>1, SubSeqProperties
    <2>3. QED
        BY <1>1, <2>1, <2>2, SubSeqProperties
<1> HIDE DEF r
<1>3. g \in [1 .. Len(r) -> 1 .. Len(s)]
    BY <1>1, <1>2
<1>4. \A i \in 1 .. Len(r) : i <= g[i] /\ r[i] = s[g[i]]
    BY <1>1, <1>2
<1>5. \A i, j \in 1 .. Len(r) : i < j => g[i] < g[j]
    BY <1>1, <1>2
<1> HIDE DEF g
<1>6. PartOf(r, s)
    BY <1>3, <1>4, <1>5 DEF PartOf
<1>7. QED
    BY <1>6 DEF r

LEMMA EmptyIsPart ==
    ASSUME NEW s
    PROVE  PartOf(<<>>, s)
<1>1. 1 .. Len(<<>>) = {}
    BY EmptySequence
<1>2. [i \in 1 .. Len(<<>>) |-> i] \in [1 .. Len(<<>>) -> 1 .. Len(s)]
    BY <1>1
<1>3. QED
    BY <1>1, <1>2 DEF PartOf

LEMMA RestIsPart ==
    ASSUME NEW s \in Seq(Bytes), NEW n \in 0 .. Len(s)
    PROVE  PartOf(From(s, n), s)
<1>1. n + 1 \in 1 .. Len(s) + 1 /\ Len(s) \in (n + 1) - 1 .. Len(s)
    BY LenProperties
<1>2. QED
    BY <1>1, PieceIsPart DEF From

\* What the ring keeps is a part of what came in.
LEMMA KeptIsPart ==
    ASSUME NEW s \in Seq(Bytes)
    PROVE  PartOf(Kept(s), s)
<1>1. CASE Len(s) < FIFO_SIZE
    BY <1>1, PartOfItself DEF Kept
<1>2. CASE ~(Len(s) < FIFO_SIZE)
    <2>1. Len(s) - FIFO_SIZE + 1 \in 0 .. Len(s)
        BY <1>2, Sizes, LenProperties
    <2>2. QED
        BY <1>2, <2>1, RestIsPart DEF Kept
<1>3. QED
    BY <1>1, <1>2

--------------------------------------------------------------------------------
(* A scan during which the reader was silent *)

\* Until the line has been read empty, bytes from before the scan may be there.
NotDrained == {"idle", "report", "drain", "drain pause"}

Silent ==
    said = {} => /\ coming = <<>> /\ result = "nothing"
                 /\ step \notin NotDrained => fifo = <<>> /\ received = <<>>

LEMMA TakenFromSome ==
    ASSUME fifo \in Seq(Bytes), received \in Seq(Bytes), Len(received) < RX_BUF_SIZE, Taken > 0
    PROVE  fifo # <<>>
<1>1. Taken \in 0 .. Len(fifo)
    BY TakenFits
<1>2. Len(fifo) \in Nat \ {0}
    BY <1>1, LenProperties
<1>3. QED
    BY <1>2, EmptySequence

LEMMA ArrivesOfReply ==
    ASSUME ReplyOK, BytesArrive
    PROVE  coming # <<>>
<1>1. reply \in Frames
    BY ArrivingBytes
<1>2. Len(reply) >= 9
    BY <1>1, FrameType
<1>3. reply # <<>>
    BY <1>2, EmptySequence
<1>4. QED
    BY <1>3 DEF ReplyOK

LEMMA SilentInitial == RfidInit => Silent
    BY DEF RfidInit, Silent, NotDrained

LEMMA SilentStep ==
    ASSUME RfidInv, Silent, [RfidNext]_rfidVars
    PROVE  Silent'
<1> USE DEF Silent, NotDrained, At, Goto
<1>1. CASE Begin
    BY <1>1 DEF Begin
<1>2. CASE Drain
    <2>1. fifo' = <<>> /\ received = <<>> /\ UNCHANGED <<received, result, coming, said>>
        BY <1>2 DEF Drain, RfidInv, ScanOK, NothingYet
    <2>2. QED
        BY <2>1
<1>3. CASE WakesUp
    <2>1. /\ step' \in {"drain", "phase 1", "phase 2"} /\ step \in DOMAIN Pause
          /\ step = "drain pause" => step' = "drain"
          /\ UNCHANGED <<received, result, fifo, coming, said>>
        BY <1>3 DEF WakesUp, Pause, lineVars
    <2>2. QED
        BY <2>1 DEF Pause
<1>4. CASE Phase1Reads
    BY <1>4 DEF Phase1Reads, lineVars
<1>5. CASE Phase1Ends \/ Phase2Ends \/ Phase2Waits
    BY <1>5 DEF Phase1Ends, Phase2Ends, Phase2Waits, lineVars
<1>6. CASE Phase2Reads
    <2>1. step = "phase 2" /\ Taken > 0 /\ UNCHANGED <<result, coming, said>>
        BY <1>6 DEF Phase2Reads, lineVars
    <2>2. fifo # <<>>
        BY <2>1, TakenFromSome DEF RfidInv, ScanOK, RingOK
    <2>3. QED
        BY <2>1, <2>2
<1>7. CASE Evaluate
    BY <1>7 DEF Evaluate, lineVars
<1>8. CASE CallbackReturns \/ Noise
    BY <1>8 DEF CallbackReturns, Noise, scanVars, lineVars
<1>9. CASE ReaderReplies
    <2>1. said' # {}
        BY <1>9 DEF ReaderReplies, Results
    <2>2. QED
        BY <2>1
<1>10. CASE BytesArrive
    <2>1. said' = said
        BY <1>10 DEF BytesArrive
    <2>2. coming # <<>>
        BY <1>10, ArrivesOfReply DEF RfidInv
    <2>3. QED
        BY <2>1, <2>2
<1>11. CASE DriverThread \/ ConsoleReads
    BY <1>11 DEF DriverThread, ConsoleReads, scanVars, lineVars
<1>12. CASE send_start_inventory
    BY <1>12 DEF send_start_inventory, scanVars
<1>13. CASE UNCHANGED rfidVars
    BY <1>13 DEF rfidVars, scanVars, lineVars
<1>14. QED
    BY <1>1, <1>2, <1>3, <1>4, <1>5, <1>6, <1>7, <1>8, <1>9, <1>10, <1>11, <1>12, <1>13
       DEF RfidNext, ScanStep

LEMMA SilentInvariant == RfidSpec => []Silent
    BY SilentInitial, SilentStep, RfidInvariant, PTL DEF RfidSpec

\* Whatever the reader has sent before, whenever it sends, whoever reads the
\* line and whatever the payloads are: a scan during which the reader said
\* nothing reports nothing.
THEOREM SilenceIsNeverReported == RfidSpec => []SilenceReportsNothing
<1>1. Silent => SilenceReportsNothing
    BY DEF Silent, SilenceReportsNothing
<1>2. QED
    BY <1>1, SilentInvariant, PTL

--------------------------------------------------------------------------------
(* What is left of a reply names nothing the reader did not name *)

\* A payload that cannot be mistaken for another one when bytes of it are lost:
\* it holds neither the byte of the start command nor, in order, the bytes of
\* the answer that there is no tag, unless it is that answer; and where a tag's
\* number follows a zero, however far behind it, it is that of the tag in its place.
Unmistakable(p) ==
    /\ Len(p) # Start /\ \A i \in 1 .. Len(p) : p[i] # Start
    /\ p = NoTag \/ ~\E i, j, k \in 1 .. Len(p) :
                        i < j /\ j < k /\ <<p[i], p[j], p[k]>> = NoTag
    /\ \A i, j \in 1 .. Len(p) :
          i < j /\ p[i] = 0 /\ p[j] \in {1, 2} => Len(p) >= 9 /\ p[8] = 0 /\ p[9] = p[j]

LEMMA BytesAreNumbers == Bytes \subseteq Nat
    BY DEF Bytes

\* A frame from its command on.
LEMMA FrameFromCommand ==
    ASSUME NEW cmd \in {Start, Inventory}, NEW p \in Seq(Bytes), Len(p) < 248,
           NEW k \in Nat, k >= 6, k <= 9 + Len(p)
    PROVE  LET f == Frame(cmd, p) IN
              \/ k = 6 /\ f[k] = cmd
              \/ k = 7 /\ f[k] = 0
              \/ k = 8 /\ f[k] = Len(p)
              \/ k - 8 \in 1 .. Len(p) /\ f[k] = p[k - 8]
              \/ k = 9 + Len(p) /\ f[k] = 70
<1> DEFINE f == Frame(cmd, p)
           hp == Header(cmd, Len(p)) \o p
<1>1. /\ f[6] = cmd /\ f[7] = 0 /\ f[8] = Len(p)
      /\ \A i \in 1 .. Len(p) : f[8 + i] = p[i]
      /\ f \in Seq(Bytes) /\ Len(f) = 9 + Len(p)
    BY FrameBytes
<1>2. Len(p) \in Nat
    BY LenProperties
<1>3. f[9 + Len(p)] = 70
    <2>1. f = Append(hp, 70)
        BY DEF Frame, Checksum
    <2>2. Len(Header(cmd, Len(p))) = 8
        BY DEF Header
    <2>3. hp \in Seq(Nat)
        <3>1. Header(cmd, Len(p)) \in Seq(Nat)
            BY <1>2 DEF Header, Start, Inventory
        <3>2. \A i \in 1 .. Len(p) : p[i] \in Nat
            <4>1. \A i \in 1 .. Len(p) : p[i] \in Bytes
                BY ElementOfSeq
            <4>2. QED
                BY <4>1, BytesAreNumbers
        <3>3. p \in Seq(Nat)
            BY <1>2, <3>2, LenProperties
        <3>4. QED
            BY <3>1, <3>3, ConcatProperties
    <2>4. Len(hp) = 8 + Len(p)
        BY <1>1, <1>2, <2>1, <2>3
    <2> HIDE DEF f, hp
    <2>5. QED
        BY <1>2, <2>1, <2>3, <2>4
<1>4. CASE k = 6 \/ k = 7 \/ k = 8 \/ k = 9 + Len(p)
    BY <1>1, <1>3, <1>4
<1>5. CASE k > 8 /\ k < 9 + Len(p)
    <2>1. k - 8 \in 1 .. Len(p) /\ 8 + (k - 8) = k
        BY <1>2, <1>5
    <2>2. QED
        BY <1>1, <2>1
<1>6. QED
    BY <1>2, <1>4, <1>5

\* A byte behind the header of what is left is the checksum or stood in the
\* payload, at w; of two, the first one stood before the second.
FromPayload(fr, p) ==
    \E w \in [1 .. Len(fr) -> Nat] :
        /\ \A i \in 1 .. Len(fr) :
              i >= 9 => \/ w[i] \in 1 .. Len(p) /\ fr[i] = p[w[i]]
                        \/ fr[i] = 70
        /\ \A i, j \in 1 .. Len(fr) : i >= 9 /\ i < j => w[i] < w[j]

LEMMA ByteFromPayload ==
    ASSUME NEW cmd \in {Start, Inventory}, NEW p \in Seq(Bytes), Len(p) < 248,
           NEW fr, PartOf(fr, Frame(cmd, p)), Len(fr) \in Nat
    PROVE  FromPayload(fr, p)
<1> DEFINE f == Frame(cmd, p)
<1>1. f \in Seq(Bytes) /\ Len(f) = 9 + Len(p)
    BY FrameBytes
<1>2. Len(p) \in Nat
    BY LenProperties
<1>3. \A k \in Nat : k >= 9 /\ k <= 9 + Len(p) =>
         \/ k - 8 \in 1 .. Len(p) /\ f[k] = p[k - 8]
         \/ f[k] = 70
    <2>1. SUFFICES ASSUME NEW k \in Nat, k >= 9, k <= 9 + Len(p)
                   PROVE  \/ k - 8 \in 1 .. Len(p) /\ f[k] = p[k - 8]
                          \/ f[k] = 70
        OBVIOUS
    <2>2. k >= 6 /\ k # 6 /\ k # 7 /\ k # 8
        BY <2>1
    <2>3. QED
        BY <2>1, <2>2, FrameFromCommand
<1> HIDE DEF f
<1>4. PICK g \in [1 .. Len(fr) -> 1 .. Len(f)] :
         /\ \A i \in 1 .. Len(fr) : i <= g[i] /\ fr[i] = f[g[i]]
         /\ \A i, j \in 1 .. Len(fr) : i < j => g[i] < g[j]
    BY DEF PartOf, f
<1> DEFINE w == [i \in 1 .. Len(fr) |-> IF i >= 9 THEN g[i] - 8 ELSE 0]
<1>5. ASSUME NEW i \in 1 .. Len(fr), i >= 9
      PROVE  /\ g[i] \in Nat /\ g[i] >= 9 /\ g[i] <= 9 + Len(p) /\ fr[i] = f[g[i]]
             /\ w[i] = g[i] - 8
    BY <1>1, <1>2, <1>4, <1>5
<1>6. w \in [1 .. Len(fr) -> Nat]
    <2>1. \A i \in 1 .. Len(fr) : w[i] \in Nat
        BY <1>5
    <2>2. QED
        BY <2>1
<1>7. \A i \in 1 .. Len(fr) :
         i >= 9 => \/ w[i] \in 1 .. Len(p) /\ fr[i] = p[w[i]]
                   \/ fr[i] = 70
    BY <1>3, <1>5
<1>8. ASSUME NEW i \in 1 .. Len(fr), NEW j \in 1 .. Len(fr), i >= 9, i < j
      PROVE  w[i] < w[j]
    <2>1. j >= 9
        BY <1>8
    <2>2. /\ w[i] = g[i] - 8 /\ w[j] = g[j] - 8 /\ g[i] \in Nat /\ g[j] \in Nat
        BY <1>5, <1>8, <2>1
    <2>3. g[i] < g[j]
        BY <1>4, <1>8
    <2>4. QED
        BY <2>2, <2>3
<1> HIDE DEF w
<1>9. QED
    BY <1>6, <1>7, <1>8 DEF FromPayload

\* So a tag that is found is the one the payload names.
LEMMA FoundTagIsNamed ==
    ASSUME NEW cmd \in {Start, Inventory}, NEW p \in Seq(Bytes), Len(p) < 248,
           Unmistakable(p),
           NEW fr \in Seq(Bytes), PartOf(fr, Frame(cmd, p)),
           NEW i \in Nat, i >= 8, TagAt(fr, i)
    PROVE  ItemAt(fr, i) = Named(p)
<1>1. Len(fr) \in Nat /\ Len(p) \in Nat
    BY LenProperties
<1>2. Byte(fr, i) = 0 /\ Byte(fr, i + 1) \in {1, 2}
    BY DEF TagAt
<1>3. i + 1 < Len(fr) /\ Byte(fr, i + 1) = fr[i + 2]
    <2>1. Byte(fr, i + 1) # 0
        BY <1>2
    <2>2. i + 1 + 1 = i + 2
        OBVIOUS
    <2>3. QED
        BY <2>1, <2>2 DEF Byte
<1>4. Byte(fr, i) = fr[i + 1]
    BY <1>1, <1>3 DEF Byte
<1>5. PICK w \in [1 .. Len(fr) -> Nat] :
         /\ \A k \in 1 .. Len(fr) :
               k >= 9 => \/ w[k] \in 1 .. Len(p) /\ fr[k] = p[w[k]]
                         \/ fr[k] = 70
         /\ \A k, l \in 1 .. Len(fr) : k >= 9 /\ k < l => w[k] < w[l]
    <2>1. FromPayload(fr, p)
        BY <1>1, ByteFromPayload, Zenon
    <2>2. QED
        BY <2>1 DEF FromPayload
<1>6. /\ i + 1 \in 1 .. Len(fr) /\ i + 2 \in 1 .. Len(fr)
      /\ i + 1 >= 9 /\ i + 2 >= 9 /\ i + 1 < i + 2
    BY <1>1, <1>3
<1>7. fr[i + 1] # 70 /\ fr[i + 2] # 70
    BY <1>2, <1>3, <1>4
<1>8. /\ w[i + 1] \in 1 .. Len(p) /\ p[w[i + 1]] = 0
      /\ w[i + 2] \in 1 .. Len(p) /\ p[w[i + 2]] = fr[i + 2] /\ fr[i + 2] \in {1, 2}
      /\ w[i + 1] < w[i + 2]
    BY <1>2, <1>3, <1>4, <1>5, <1>6, <1>7
<1>9. Len(p) >= 9 /\ p[8] = 0 /\ p[9] = fr[i + 2]
    BY <1>8 DEF Unmistakable
<1>10. p # NoTag
    <2>1. Len(NoTag) = 3
        BY DEF NoTag
    <2>2. QED
        BY <1>9, <2>1
<1>11. ItemAt(fr, i) = IF fr[i + 2] = 1 THEN "ITEM_1" ELSE "ITEM_2"
    BY <1>3 DEF ItemAt
<1>12. QED
    BY <1>8, <1>9, <1>10, <1>11 DEF Named

\* And what reads as the answer that there is no tag is that answer.
LEMMA FoundNoTagIsNamed ==
    ASSUME NEW cmd \in {Start, Inventory}, NEW p \in Seq(Bytes), Len(p) < 248,
           Unmistakable(p),
           NEW fr \in Seq(Bytes), PartOf(fr, Frame(cmd, p)),
           Len(fr) >= 11, SubSeq(fr, 9, 11) = NoTag
    PROVE  Named(p) = "NONE"
<1>1. Len(fr) \in Nat /\ Len(p) \in Nat
    BY LenProperties
<1>2. fr[9] = 7 /\ fr[10] = 1 /\ fr[11] = 80
    <2> DEFINE t == SubSeq(fr, 9, 11)
    <2>1. t[1] = fr[9] /\ t[2] = fr[10] /\ t[3] = fr[11]
        BY <1>1
    <2> HIDE DEF t
    <2>2. t = <<7, 1, 80>>
        BY DEF NoTag, t
    <2>3. t[1] = 7 /\ t[2] = 1 /\ t[3] = 80
        BY <2>2
    <2>4. QED
        BY <2>1, <2>3
<1>3. PICK w \in [1 .. Len(fr) -> Nat] :
         /\ \A k \in 1 .. Len(fr) :
               k >= 9 => \/ w[k] \in 1 .. Len(p) /\ fr[k] = p[w[k]]
                         \/ fr[k] = 70
         /\ \A k, l \in 1 .. Len(fr) : k >= 9 /\ k < l => w[k] < w[l]
    <2>1. FromPayload(fr, p)
        BY <1>1, ByteFromPayload, Zenon
    <2>2. QED
        BY <2>1 DEF FromPayload
<1>4. 9 \in 1 .. Len(fr) /\ 10 \in 1 .. Len(fr) /\ 11 \in 1 .. Len(fr)
    BY <1>1
<1>5. /\ w[9] \in 1 .. Len(p) /\ w[10] \in 1 .. Len(p) /\ w[11] \in 1 .. Len(p)
      /\ p[w[9]] = 7 /\ p[w[10]] = 1 /\ p[w[11]] = 80
      /\ w[9] < w[10] /\ w[10] < w[11]
    BY <1>2, <1>3, <1>4
<1>6. <<p[w[9]], p[w[10]], p[w[11]]>> = NoTag
    BY <1>5 DEF NoTag
<1>7. p = NoTag
    BY <1>5, <1>6 DEF Unmistakable
<1>8. QED
    BY <1>7 DEF Named

\* A set of numbers that is not empty has a smallest one.
LEMMA SmallestExists ==
    ASSUME NEW S, S \subseteq Nat, S # {}
    PROVE  Min(S) \in S
<1>1. PICK x \in S : \A y \in S : ~(<<y, x>> \in OpToRel(<, Nat))
    BY NatLessThanWellFounded, WFMin
<1>2. \A y \in S : x <= y
    <2>1. SUFFICES ASSUME NEW y \in S PROVE x <= y
        OBVIOUS
    <2>2. x \in Nat /\ y \in Nat
        OBVIOUS
    <2>3. y < x => <<y, x>> \in OpToRel(<, Nat)
        BY <2>2 DEF OpToRel
    <2>4. ~(y < x)
        BY <1>1, <2>3, Zenon
    <2>5. QED
        BY <2>2, <2>4
<1>3. QED
    BY <1>2 DEF Min

\* The numbers in a header are numbers.
LEMMA HeaderNumbers ==
    ASSUME NEW fr \in Seq(Bytes)
    PROVE  DataLen(fr) \in Nat /\ TotalLen(fr) \in Nat
<1>1. \A i \in Nat : Byte(fr, i) \in Nat
    <2>1. SUFFICES ASSUME NEW i \in Nat PROVE Byte(fr, i) \in Nat
        OBVIOUS
    <2>2. CASE i < Len(fr)
        <3>1. i + 1 \in 1 .. Len(fr)
            BY <2>2, LenProperties
        <3>2. fr[i + 1] \in Bytes
            BY <3>1, ElementOfSeq
        <3>3. QED
            BY <2>2, <3>2, BytesAreNumbers DEF Byte
    <2>3. CASE ~(i < Len(fr))
        BY <2>3 DEF Byte
    <2>4. QED
        BY <2>2, <2>3
<1>2. Byte(fr, 6) \in Nat /\ Byte(fr, 7) \in Nat
    BY <1>1
<1>3. DataLen(fr) \in Nat
    BY <1>2 DEF DataLen
<1>4. QED
    BY <1>3 DEF TotalLen

\* The payload that is left names no tag but its own.
LEMMA PayloadLossNamesNothingElse ==
    ASSUME NEW p \in Seq(Bytes), Len(p) < 248, Unmistakable(p),
           NEW fr \in Seq(Bytes), PartOf(fr, Frame(Inventory, p)), Len(fr) >= TotalLen(fr),
           rfid_parse_inventory_response(fr) \in {"ITEM_1", "ITEM_2", "NONE"}
    PROVE  rfid_parse_inventory_response(fr) = Named(p)
<1> DEFINE found == {i \in 8 .. 8 + DataLen(fr) : i + 1 < 8 + DataLen(fr) /\ TagAt(fr, i)}
<1>1. DataLen(fr) \in Nat
    BY HeaderNumbers
<1>2. CASE DataLen(fr) = 3
    <2>1. TotalLen(fr) = 11
        BY <1>2 DEF TotalLen
    <2>2. SubSeq(fr, 9, 11) = NoTag /\ rfid_parse_inventory_response(fr) = "NONE"
        BY <1>2 DEF rfid_parse_inventory_response
    <2>3. QED
        BY <2>1, <2>2, FoundNoTagIsNamed
<1>3. CASE DataLen(fr) # 3 /\ TotalLen(fr) >= 17 /\ TagAt(fr, 15)
    <2>1. rfid_parse_inventory_response(fr) = ItemAt(fr, 15)
        BY <1>3, Zenon DEF rfid_parse_inventory_response
    <2>2. 15 \in Nat /\ 15 >= 8
        OBVIOUS
    <2>3. QED
        BY <1>3, <2>1, <2>2, FoundTagIsNamed
<1>4. CASE DataLen(fr) # 3 /\ ~(TotalLen(fr) >= 17 /\ TagAt(fr, 15))
    <2>1. rfid_parse_inventory_response(fr) =
             IF found = {} THEN "UNKNOWN" ELSE ItemAt(fr, Min(found))
        BY <1>4, Zenon DEF rfid_parse_inventory_response
    <2>2. found # {}
        BY <2>1
    <2>3. found \subseteq Nat
        BY <1>1
    <2>4. Min(found) \in found
        BY <2>2, <2>3, SmallestExists
    <2>5. Min(found) \in Nat /\ Min(found) >= 8 /\ TagAt(fr, Min(found))
        BY <1>1, <2>4
    <2>6. QED
        BY <2>1, <2>2, <2>5, FoundTagIsNamed
<1>5. QED
    BY <1>2, <1>3, <1>4

\* What is read from the bytes that are left of a reply, if it is a tag or that
\* there is none, is what the reply means.
LEMMA LossNamesNothingElse ==
    ASSUME NEW f \in Frames, \A p \in Payloads : Unmistakable(p),
           NEW data \in Seq(Bytes), PartOf(data, f),
           rfid_parse_response_impl(data) \in {"ITEM_1", "ITEM_2", "NONE"}
    PROVE  rfid_parse_response_impl(data) = Meaning(f)
<1>1. PICK cmd \in {Start, Inventory}, p \in Seq(Bytes) :
         /\ f = Frame(cmd, p) /\ Len(p) < 248
         /\ cmd = Start => p = <<7, 1, 0>>
         /\ cmd = Inventory => p \in Payloads
    BY FramesOfReader
<1>2. Meaning(f) = IF cmd = Start THEN "NONE" ELSE Named(p)
    BY <1>1, FrameMeansPayload
<1> DEFINE h == find_valid_frame(data)
           fr == From(data, h)
<1>3. HeaderAt(data) # {}
    BY DEF rfid_parse_response_impl
<1>4. h \in 0 .. Len(data)
    <2>1. HeaderAt(data) \subseteq 0 .. Len(data) /\ Len(data) \in Nat
        BY LenProperties DEF HeaderAt
    <2>2. h \in HeaderAt(data)
        BY <1>3, <2>1, SmallestExists DEF find_valid_frame
    <2>3. QED
        BY <2>1, <2>2
<1>5. fr \in Seq(Bytes) /\ PartOf(fr, f) /\ Len(fr) \in Nat
    BY <1>4, FromType, RestIsPart, PartOfPart, LenProperties
<1>6. /\ ~(Len(fr) < 8 \/ Byte(fr, 2) # 1 \/ Len(fr) < TotalLen(fr))
      /\ rfid_parse_response_impl(data) =
            CASE Byte(fr, 5) = Start -> "NONE"
              [] Byte(fr, 5) = Inventory -> rfid_parse_inventory_response(fr)
              [] OTHER -> "ERROR"
    BY <1>3 DEF rfid_parse_response_impl
<1> HIDE DEF fr
<1>7. Len(fr) >= 8 /\ Len(fr) >= TotalLen(fr)
    <2>1. TotalLen(fr) \in Nat
        BY <1>5, HeaderNumbers
    <2>2. QED
        BY <1>5, <1>6, <2>1
<1>8. Len(p) \in Nat /\ f \in Seq(Bytes) /\ Len(f) = 9 + Len(p)
    BY <1>1, FrameBytes, LenProperties
<1>9. PICK k \in Nat : k >= 6 /\ k <= 9 + Len(p) /\ Byte(fr, 5) = f[k]
    <2>1. PICK g \in [1 .. Len(fr) -> 1 .. Len(f)] :
             \A i \in 1 .. Len(fr) : i <= g[i] /\ fr[i] = f[g[i]]
        BY <1>5 DEF PartOf
    <2>2. 6 \in 1 .. Len(fr) /\ 5 < Len(fr)
        BY <1>5, <1>7
    <2>3. g[6] \in 1 .. 9 + Len(p) /\ 6 <= g[6] /\ fr[6] = f[g[6]]
        BY <1>8, <2>1, <2>2
    <2>4. Byte(fr, 5) = fr[6]
        BY <2>2 DEF Byte
    <2>5. g[6] \in Nat /\ g[6] >= 6 /\ g[6] <= 9 + Len(p)
        BY <1>8, <2>3
    <2>6. QED
        BY <2>3, <2>4, <2>5
<1>10. \/ k = 6 /\ f[k] = cmd
       \/ k = 7 /\ f[k] = 0
       \/ k = 8 /\ f[k] = Len(p)
       \/ k - 8 \in 1 .. Len(p) /\ f[k] = p[k - 8]
       \/ k = 9 + Len(p) /\ f[k] = 70
    <2>1. LET fp == Frame(cmd, p) IN
             \/ k = 6 /\ fp[k] = cmd
             \/ k = 7 /\ fp[k] = 0
             \/ k = 8 /\ fp[k] = Len(p)
             \/ k - 8 \in 1 .. Len(p) /\ fp[k] = p[k - 8]
             \/ k = 9 + Len(p) /\ fp[k] = 70
        BY <1>1, <1>9, FrameFromCommand, Zenon
    <2>2. QED
        BY <1>1, <2>1, Zenon
<1>11. CASE cmd = Start
    <2>1. p = <<7, 1, 0>> /\ Len(p) = 3 /\ p[1] = 7 /\ p[2] = 1 /\ p[3] = 0
        BY <1>1, <1>11
    <2>2. f[k] # Inventory
        <3>1. Start # Inventory /\ Inventory \notin {0, 3, 7, 1, 70}
            BY DEF Start, Inventory
        <3>2. k - 8 \in 1 .. Len(p) => p[k - 8] \in {7, 1, 0}
            BY <2>1
        <3>3. QED
            BY <1>10, <1>11, <2>1, <3>1, <3>2
    <2>3. rfid_parse_response_impl(data) \in {"NONE", "ERROR"}
        BY <1>6, <1>9, <2>2
    <2>4. QED
        BY <1>2, <1>11, <2>3
<1>12. CASE cmd = Inventory
    <2>1. Unmistakable(p) /\ cmd # Start
        BY <1>1, <1>12 DEF Start, Inventory
    <2>2. f[k] # Start
        <3>1. Start # Inventory /\ Start \notin {0, 70}
            BY DEF Start, Inventory
        <3>2. Len(p) # Start /\ (k - 8 \in 1 .. Len(p) => p[k - 8] # Start)
            BY <2>1 DEF Unmistakable
        <3>3. QED
            BY <1>10, <1>12, <3>1, <3>2
    <2>3. rfid_parse_response_impl(data) = rfid_parse_inventory_response(fr)
        BY <1>6, <1>9, <2>2
    <2>4. rfid_parse_inventory_response(fr) = Named(p)
        BY <1>1, <1>5, <1>7, <2>1, <2>3, PayloadLossNamesNothingElse
    <2>5. QED
        BY <1>2, <2>1, <2>3, <2>4
<1>13. QED
    BY <1>11, <1>12

--------------------------------------------------------------------------------
(* Where the bytes of a scan come from *)

\* All that was received, waits in the ring or is still to come.
OnTheWay == received \o (fifo \o coming)

\* As long as one reply was heard since the scan began, what comes is of that
\* reply, and so is, once the line was read empty, all that is on the way.
OfFrame(f) ==
    /\ said = {Meaning(f)}
    /\ coming # <<>> => reply = f
    /\ step \notin NotDrained => PartOf(OnTheWay, f)

Sourced ==
    /\ ReportWasSaid
    /\ said = {} \/ said = Results \/ \E f \in Frames : OfFrame(f)

LEMMA ScanTypes ==
    ASSUME RfidInv
    PROVE  /\ received \in Seq(Bytes) /\ fifo \in Seq(Bytes) /\ coming \in Seq(Bytes)
           /\ step \in NothingYet => received = <<>>
<1>1. CASE coming = <<>>
    BY <1>1, EmptySequence DEF RfidInv, ScanOK, RingOK
<1>2. CASE coming # <<>>
    <2>1. reply \in Frames /\ Len(coming) \in 1 .. Len(reply)
          /\ coming = From(reply, Len(reply) - Len(coming))
        BY <1>2 DEF RfidInv, ReplyOK
    <2>2. reply \in Seq(Bytes) /\ Len(reply) \in Nat
        BY <2>1, FrameType
    <2>3. Len(reply) - Len(coming) \in 0 .. Len(reply)
        BY <2>1, <2>2
    <2>4. coming \in Seq(Bytes)
        BY <2>1, <2>2, <2>3, FromType
    <2>5. QED
        BY <2>4 DEF RfidInv, ScanOK, RingOK
<1>3. QED
    BY <1>1, <1>2

\* What is to come is a part of the reply.
LEMMA ComingIsPart ==
    ASSUME RfidInv, coming # <<>>
    PROVE  PartOf(coming, reply)
<1>1. reply \in Frames /\ Len(coming) \in 1 .. Len(reply)
      /\ coming = From(reply, Len(reply) - Len(coming))
    BY DEF RfidInv, ReplyOK
<1>2. reply \in Seq(Bytes) /\ Len(reply) \in Nat
    BY <1>1, FrameType
<1>3. Len(reply) - Len(coming) \in 0 .. Len(reply)
    BY <1>1, <1>2
<1>4. QED
    BY <1>1, <1>2, <1>3, RestIsPart

\* A smaller ring, and the same bytes around it, are a part of what there was.
LEMMA LessInRing ==
    ASSUME NEW r \in Seq(Bytes), NEW a \in Seq(Bytes), NEW b \in Seq(Bytes),
           NEW c \in Seq(Bytes), PartOf(a, b)
    PROVE  PartOf(r \o (a \o c), r \o (b \o c))
<1>1. PartOf(a \o c, b \o c) /\ a \o c \in Seq(Bytes) /\ b \o c \in Seq(Bytes)
    BY PartOfItself, PartsJoined, Joined
<1>2. QED
    BY <1>1, PartOfItself, PartsJoined

LEMMA Regrouped ==
    ASSUME NEW a \in Seq(Bytes), NEW b \in Seq(Bytes), NEW c \in Seq(Bytes)
    PROVE  (a \o b) \o c = a \o (b \o c)
    BY ConcatAssociative

LEMMA FirstAndRest ==
    ASSUME NEW s \in Seq(Bytes), s # <<>>
    PROVE  Append(<<>>, Head(s)) \o Tail(s) = s
<1>1. Len(s) \in Nat \ {0}
    BY EmptySeq
<1>2. QED
    BY <1>1

LEMMA TakenAndRest ==
    ASSUME NEW s \in Seq(Bytes), NEW n \in 0 .. Len(s)
    PROVE  /\ SubSeq(s, 1, n) \in Seq(Bytes) /\ From(s, n) \in Seq(Bytes)
           /\ SubSeq(s, 1, n) \o From(s, n) = s
<1> DEFINE a == SubSeq(s, 1, n)
           b == From(s, n)
<1>1. Len(s) \in Nat /\ n \in Nat
    BY LenProperties
<1>2. a \in Seq(Bytes) /\ Len(a) = n /\ \A i \in 1 .. n : a[i] = s[i]
    BY <1>1
<1>3. b \in Seq(Bytes) /\ Len(b) = Len(s) - n /\ \A i \in 1 .. Len(s) - n : b[i] = s[n + i]
    BY <1>1 DEF From
<1> HIDE DEF a, b
<1>4. /\ a \o b \in Seq(Bytes) /\ Len(a \o b) = Len(a) + Len(b)
      /\ \A i \in 1 .. Len(a) + Len(b) : (a \o b)[i] = IF i <= Len(a) THEN a[i] ELSE b[i - Len(a)]
    BY <1>2, <1>3, ConcatProperties
<1>5. ASSUME NEW i \in 1 .. Len(s) PROVE (a \o b)[i] = s[i]
    <2>1. CASE i <= n
        BY <1>1, <1>2, <1>3, <1>4, <2>1
    <2>2. CASE ~(i <= n)
        <3>1. i - n \in 1 .. Len(s) - n /\ n + (i - n) = i
            BY <1>1, <2>2
        <3>2. QED
            BY <1>1, <1>2, <1>3, <1>4, <2>2, <3>1
    <2>3. QED
        BY <2>1, <2>2
<1>6. Len(a \o b) = Len(s)
    BY <1>1, <1>2, <1>3, <1>4
<1>7. a \o b = s
    BY <1>4, <1>5, <1>6, SeqEqual
<1>8. QED
    BY <1>2, <1>3, <1>7 DEF a, b

\* Where a piece of the ring is counted makes no difference.
SameBytes(r, a, b, c) == (r \o a) \o (b \o c) = r \o ((a \o b) \o c)

LEMMA RegroupedFour ==
    ASSUME NEW r \in Seq(Bytes), NEW a \in Seq(Bytes),
           NEW b \in Seq(Bytes), NEW c \in Seq(Bytes)
    PROVE  SameBytes(r, a, b, c)
<1>1. b \o c \in Seq(Bytes)
    BY Joined
<1>2. (r \o a) \o (b \o c) = r \o (a \o (b \o c))
    BY <1>1, Regrouped
<1>3. (a \o b) \o c = a \o (b \o c)
    BY Regrouped
<1>4. QED
    BY <1>2, <1>3 DEF SameBytes

\* Taking a piece from the front of the ring moves nothing.
LEMMA TakenMovesNothing ==
    ASSUME NEW r \in Seq(Bytes), NEW s \in Seq(Bytes), NEW c \in Seq(Bytes),
           NEW n \in 0 .. Len(s)
    PROVE  (r \o SubSeq(s, 1, n)) \o (From(s, n) \o c) = r \o (s \o c)
<1> DEFINE a == SubSeq(s, 1, n)
           b == From(s, n)
<1>1. a \in Seq(Bytes)
    BY TakenAndRest
<1>2. b \in Seq(Bytes)
    BY TakenAndRest
<1>3. a \o b = s
    BY TakenAndRest
<1> HIDE DEF a, b
<1>4. SameBytes(r, a, b, c)
    BY <1>1, <1>2, RegroupedFour, Zenon
<1>5. (r \o a) \o (b \o c) = r \o (s \o c)
    BY <1>3, <1>4 DEF SameBytes
<1>6. QED
    BY <1>5 DEF a, b

\* The steps by which a scan takes bytes from the ring keep all that is on the way.
LEMMA ReadingKeepsAll ==
    ASSUME RfidInv, Phase1Reads \/ Phase2Reads
    PROVE  OnTheWay' = OnTheWay
<1>1. received \in Seq(Bytes) /\ fifo \in Seq(Bytes) /\ coming \in Seq(Bytes)
    BY ScanTypes
<1>2. CASE Phase1Reads
    <2>1. step = "phase 1" /\ coming' = coming
        BY <1>2 DEF Phase1Reads, At, lineVars
    <2>2. received = <<>>
        BY <2>1, ScanTypes DEF NothingYet
    <2>3. CASE fifo = <<>>
        BY <1>2, <2>1, <2>3 DEF Phase1Reads, OnTheWay
    <2>4. CASE fifo # <<>>
        <3>1. received' = Append(<<>>, Head(fifo)) /\ fifo' = Tail(fifo)
            BY <1>2, <2>2, <2>4 DEF Phase1Reads
        <3>2. Append(<<>>, Head(fifo)) \in Seq(Bytes) /\ Tail(fifo) \in Seq(Bytes)
            BY <1>1, <2>4, FirstByte
        <3>3. Append(<<>>, Head(fifo)) \o Tail(fifo) = fifo
            BY <1>1, <2>4, FirstAndRest
        <3>4. received' \o (fifo' \o coming) = (received' \o fifo') \o coming
            BY <1>1, <3>1, <3>2, Regrouped
        <3>5. OnTheWay' = fifo \o coming
            BY <2>1, <3>1, <3>3, <3>4, Zenon DEF OnTheWay
        <3>6. fifo \o coming \in Seq(Bytes)
            BY <1>1, Joined
        <3>7. OnTheWay = fifo \o coming
            BY <2>2, <3>6, ConcatEmptySeq, Zenon DEF OnTheWay
        <3>8. QED
            BY <3>5, <3>7
    <2>5. QED
        BY <2>3, <2>4
<1>3. CASE Phase2Reads
    <2>1. /\ received' = received \o SubSeq(fifo, 1, Taken)
          /\ fifo' = From(fifo, Taken) /\ coming' = coming
        BY <1>3 DEF Phase2Reads, lineVars
    <2>2. Taken \in 0 .. Len(fifo)
        BY <1>1, TakenFits DEF RfidInv, ScanOK
    <2>3. (received \o SubSeq(fifo, 1, Taken)) \o (From(fifo, Taken) \o coming)
             = received \o (fifo \o coming)
        BY <1>1, <2>2, TakenMovesNothing, Zenon
    <2>4. QED
        BY <2>1, <2>3, Zenon DEF OnTheWay
<1>4. QED
    BY <1>2, <1>3

LEMMA TailIsPart ==
    ASSUME NEW s \in Seq(Bytes), s # <<>>
    PROVE  PartOf(Tail(s), s) /\ Tail(s) \in Seq(Bytes)
<1>1. Len(s) \in Nat \ {0}
    BY EmptySeq
<1>2. From(s, 1) = Tail(s)
    BY <1>1 DEF From
<1>3. 1 \in 0 .. Len(s)
    BY <1>1
<1>4. QED
    BY <1>2, <1>3, RestIsPart, FromType

\* The front of what is on the way is a part of it.
LEMMA FrontIsPart ==
    ASSUME NEW r \in Seq(Bytes), NEW t \in Seq(Bytes)
    PROVE  PartOf(r, r \o t)
<1>1. PartOf(r \o <<>>, r \o t)
    BY EmptySequence, EmptyIsPart, PartOfItself, PartsJoined
<1>2. r \o <<>> = r
    BY ConcatEmptySeq
<1>3. QED
    BY <1>1, <1>2

\* A piece and the rest behind it.
LEMMA PieceAndRest ==
    ASSUME NEW s \in Seq(Bytes), NEW m \in 0 .. Len(s), NEW n \in m .. Len(s)
    PROVE  SubSeq(s, m + 1, n) \o From(s, n) = From(s, m)
<1> DEFINE a == SubSeq(s, m + 1, n)
           b == From(s, n)
           t == From(s, m)
<1>1. Len(s) \in Nat /\ m \in Nat /\ n \in Nat /\ m <= n /\ n <= Len(s)
    BY LenProperties
<1>2. a \in Seq(Bytes) /\ Len(a) = n - m /\ \A i \in 1 .. n - m : a[i] = s[m + i]
    BY <1>1
<1>3. b \in Seq(Bytes) /\ Len(b) = Len(s) - n /\ \A i \in 1 .. Len(s) - n : b[i] = s[n + i]
    BY <1>1 DEF From
<1>4. t \in Seq(Bytes) /\ Len(t) = Len(s) - m /\ \A i \in 1 .. Len(s) - m : t[i] = s[m + i]
    BY <1>1 DEF From
<1> HIDE DEF a, b, t
<1>5. /\ a \o b \in Seq(Bytes) /\ Len(a \o b) = Len(a) + Len(b)
      /\ \A i \in 1 .. Len(a) + Len(b) : (a \o b)[i] = IF i <= Len(a) THEN a[i] ELSE b[i - Len(a)]
    BY <1>2, <1>3, ConcatProperties
<1>6. ASSUME NEW i \in 1 .. Len(t) PROVE (a \o b)[i] = t[i]
    <2>1. i \in 1 .. Len(a) + Len(b) /\ i \in Nat
        BY <1>1, <1>2, <1>3, <1>4
    <2>2. CASE i <= n - m
        BY <1>1, <1>2, <1>4, <1>5, <2>1, <2>2
    <2>3. CASE ~(i <= n - m)
        <3>1. i - (n - m) \in 1 .. Len(s) - n /\ n + (i - (n - m)) = m + i
            BY <1>1, <1>4, <2>1, <2>3
        <3>2. (a \o b)[i] = b[i - (n - m)]
            BY <1>2, <1>5, <2>1, <2>3
        <3>3. QED
            BY <1>3, <1>4, <3>1, <3>2
    <2>4. QED
        BY <2>2, <2>3
<1>7. Len(a \o b) = Len(t)
    BY <1>1, <1>2, <1>3, <1>4, <1>5
<1>8. a \o b = t
    BY <1>4, <1>5, <1>6, <1>7, SeqEqual
<1>9. QED
    BY <1>8 DEF a, b, t

\* The ring that keeps only the last bytes of what comes in.
LEMMA RingKeepsPart ==
    ASSUME NEW r \in Seq(Bytes), NEW a \in Seq(Bytes), NEW p \in Seq(Bytes),
           NEW c \in Seq(Bytes)
    PROVE  PartOf(r \o (Kept(a \o p) \o c), r \o (a \o (p \o c)))
<1>1. a \o p \in Seq(Bytes)
    BY Joined
<1>2. PartOf(r \o (Kept(a \o p) \o c), r \o ((a \o p) \o c))
    BY <1>1, KeptFits, KeptIsPart, LessInRing
<1>3. (a \o p) \o c = a \o (p \o c)
    BY Regrouped
<1>4. QED
    BY <1>2, <1>3

LEMMA ArrivingLosesOnly ==
    ASSUME RfidInv, BytesArrive
    PROVE  PartOf(OnTheWay', OnTheWay)
<1>1. received \in Seq(Bytes) /\ fifo \in Seq(Bytes)
    BY ScanTypes
<1>2. coming # <<>> /\ coming = From(reply, Len(reply) - Len(coming))
    BY ArrivesOfReply DEF RfidInv, ReplyOK
<1> DEFINE m == Len(reply) - Len(coming)
<1>3. PICK n \in Nat :
         /\ n \in m + 1 .. Len(reply)
         /\ fifo' = Kept(fifo \o SubSeq(reply, m + 1, n))
         /\ coming' = From(reply, n)
    BY ArrivingBytes DEF RfidInv
<1>4. reply \in Seq(Bytes) /\ Len(reply) \in Nat /\ m \in 0 .. Len(reply) - 1
    BY ArrivingBytes DEF RfidInv
<1> HIDE DEF m
<1>5. m \in 0 .. Len(reply) /\ n \in m .. Len(reply) /\ n \in 0 .. Len(reply)
    BY <1>3, <1>4
<1>6. SubSeq(reply, m + 1, n) \in Seq(Bytes)
    <2>1. m + 1 \in 1 .. Len(reply) + 1 /\ n \in (m + 1) - 1 .. Len(reply)
        BY <1>3, <1>4
    <2>2. QED
        BY <1>4, <2>1, Pieces
<1>7. coming' \in Seq(Bytes)
    BY <1>3, <1>4, <1>5, FromType
<1>8. SubSeq(reply, m + 1, n) \o coming' = coming
    <2>1. SubSeq(reply, m + 1, n) \o From(reply, n) = From(reply, m)
        BY <1>4, <1>5, PieceAndRest
    <2>2. QED
        BY <1>2, <1>3, <2>1 DEF m
<1>9. PartOf(received \o (Kept(fifo \o SubSeq(reply, m + 1, n)) \o coming'),
             received \o (fifo \o (SubSeq(reply, m + 1, n) \o coming')))
    BY <1>1, <1>6, <1>7, RingKeepsPart, Zenon
<1>10. received' = received
    BY DEF BytesArrive, scanVars
<1>11. QED
    BY <1>3, <1>8, <1>9, <1>10, Zenon DEF OnTheWay

\* A step after which what is on the way is a part of what it was.
Carries ==
    /\ said' = said
    /\ coming' # <<>> => coming # <<>> /\ reply' = reply
    /\ step' \notin NotDrained => step \notin NotDrained /\ PartOf(OnTheWay', OnTheWay)

LEMMA CarriedIsSourced ==
    ASSUME Sourced, Carries, ReportWasSaid'
    PROVE  Sourced'
<1>1. CASE said = {} \/ said = Results
    BY <1>1 DEF Sourced, Carries
<1>2. ASSUME NEW f \in Frames, OfFrame(f) PROVE Sourced'
    <2>1. said' = {Meaning(f)} /\ (coming' # <<>> => reply' = f)
        BY <1>2 DEF OfFrame, Carries
    <2>2. step' \notin NotDrained => PartOf(OnTheWay', f)
        BY <1>2, PartOfPart DEF OfFrame, Carries
    <2>3. OfFrame(f)'
        BY <2>1, <2>2, Zenon DEF OfFrame
    <2>4. QED
        BY <2>3 DEF Sourced
<1>3. QED
    BY <1>1, <1>2 DEF Sourced

LEMMA SameReport ==
    ASSUME ReportWasSaid, result' = result, said' = said
    PROVE  ReportWasSaid'
    BY DEF ReportWasSaid

\* The steps that leave what is on the way alone, or lose bytes of it.
LEMMA LineCarries ==
    ASSUME RfidInv,
           \/ WakesUp \/ Phase1Reads \/ Phase1Ends \/ Phase2Reads \/ Phase2Ends \/ Phase2Waits
           \/ CallbackReturns \/ BytesArrive \/ Noise \/ DriverThread \/ ConsoleReads
           \/ send_start_inventory \/ UNCHANGED rfidVars
    PROVE  Carries /\ result' = result
<1> USE DEF At, Goto, NotDrained
<1>1. received \in Seq(Bytes) /\ fifo \in Seq(Bytes) /\ coming \in Seq(Bytes)
    BY ScanTypes
<1>2. UNCHANGED <<received, fifo, coming>> => OnTheWay' = OnTheWay
    BY DEF OnTheWay
<1>3. OnTheWay' = OnTheWay => PartOf(OnTheWay', OnTheWay)
    BY PartOfItself
<1>4. CASE WakesUp
    <2>1. /\ UNCHANGED <<received, result, fifo, coming, said, reply>>
          /\ step' \notin NotDrained => step \notin NotDrained
        BY <1>4 DEF WakesUp, Pause, lineVars
    <2>2. QED
        BY <1>2, <1>3, <2>1 DEF Carries
<1>5. CASE Phase1Reads \/ Phase2Reads
    <2>1. UNCHANGED <<result, coming, said, reply>> /\ step \in {"phase 1", "phase 2"}
        BY <1>5 DEF Phase1Reads, Phase2Reads, lineVars
    <2>2. OnTheWay' = OnTheWay
        BY <1>5, ReadingKeepsAll
    <2>3. QED
        BY <1>3, <2>1, <2>2 DEF Carries
<1>6. CASE Phase1Ends \/ Phase2Ends \/ Phase2Waits
    <2>1. /\ UNCHANGED <<received, result, fifo, coming, said, reply>>
          /\ step \in {"phase 1", "phase 2"}
        BY <1>6 DEF Phase1Ends, Phase2Ends, Phase2Waits, lineVars
    <2>2. QED
        BY <1>2, <1>3, <2>1 DEF Carries
<1>7. CASE BytesArrive
    <2>1. /\ UNCHANGED <<step, result, said>>
          /\ coming' # <<>> => reply' = reply
        BY <1>7 DEF BytesArrive, scanVars
    <2>2. coming # <<>>
        BY <1>7, ArrivesOfReply DEF RfidInv
    <2>3. PartOf(OnTheWay', OnTheWay)
        BY <1>7, ArrivingLosesOnly
    <2>4. QED
        BY <2>1, <2>2, <2>3 DEF Carries
<1>8. CASE DriverThread \/ ConsoleReads
    <2>1. UNCHANGED <<step, received, result, coming, said, reply>>
        BY <1>8 DEF DriverThread, ConsoleReads, scanVars, lineVars
    <2>2. DriverThread => fifo # <<>> /\ fifo' = Tail(fifo)
        BY DEF DriverThread
    <2>3. ConsoleReads => fifo' = <<>>
        BY DEF ConsoleReads
    <2>4. fifo' \in Seq(Bytes) /\ PartOf(fifo', fifo)
        <3>1. CASE DriverThread
            BY <1>1, <2>2, <3>1, TailIsPart
        <3>2. CASE ConsoleReads
            BY <2>3, <3>2, EmptySequence, EmptyIsPart
        <3>3. QED
            BY <1>8, <3>1, <3>2
    <2>5. PartOf(received \o (fifo' \o coming), received \o (fifo \o coming))
        BY <1>1, <2>4, LessInRing, Zenon
    <2>6. PartOf(OnTheWay', OnTheWay)
        BY <2>1, <2>5, Zenon DEF OnTheWay
    <2>7. QED
        BY <2>1, <2>6 DEF Carries
<1>9. CASE send_start_inventory \/ UNCHANGED rfidVars
    <2>1. UNCHANGED <<step, received, result, fifo, coming, said, reply>>
        BY <1>9 DEF send_start_inventory, rfidVars, scanVars, lineVars
    <2>2. QED
        BY <1>2, <1>3, <2>1 DEF Carries
<1>10. CASE CallbackReturns \/ Noise
    BY <1>10 DEF CallbackReturns, Noise, Carries, scanVars, lineVars
<1>11. QED
    BY <1>4, <1>5, <1>6, <1>7, <1>8, <1>9, <1>10

\* Once the line was read empty, all there is is still to come.
LEMMA DrainedIsSourced ==
    ASSUME RfidInv, Sourced, Drain
    PROVE  Sourced'
<1>1. /\ fifo' = <<>> /\ UNCHANGED <<received, result, reply, coming, said>>
      /\ step = "drain"
    BY DEF Drain, At
<1>2. ReportWasSaid'
    BY <1>1, SameReport DEF Sourced
<1>3. CASE said = {} \/ said = Results
    BY <1>1, <1>2, <1>3 DEF Sourced
<1>4. ASSUME NEW f \in Frames, OfFrame(f) PROVE Sourced'
    <2>1. coming \in Seq(Bytes) /\ received = <<>>
        BY <1>1, ScanTypes DEF NothingYet
    <2>2. OnTheWay' = coming
        <3>1. OnTheWay' = <<>> \o (<<>> \o coming)
            BY <1>1, <2>1, Zenon DEF OnTheWay
        <3>2. <<>> \o coming = coming
            BY <2>1, ConcatEmptySeq
        <3>3. QED
            BY <3>1, <3>2
    <2>3. PartOf(coming, f)
        BY <1>4, EmptyIsPart, ComingIsPart DEF OfFrame
    <2>4. OfFrame(f)'
        BY <1>1, <1>4, <2>2, <2>3 DEF OfFrame
    <2>5. QED
        BY <1>2, <2>4 DEF Sourced
<1>5. QED
    BY <1>3, <1>4 DEF Sourced

\* The first reply since the scan began finds the line empty; after a second
\* one nothing is known.
LEMMA RepliedIsSourced ==
    ASSUME RfidInv, Silent, Sourced, ReaderReplies
    PROVE  Sourced'
<1>1. /\ UNCHANGED <<step, received, result, fifo>> /\ coming' = reply' /\ reply' \in Frames
      /\ said' = IF said = {} THEN {Meaning(reply')} ELSE Results
    BY DEF ReaderReplies, scanVars
<1>2. CASE said # {}
    <2>1. ReportWasSaid'
        BY <1>1, <1>2 DEF ReportWasSaid, Results
    <2>2. QED
        BY <1>1, <1>2, <2>1 DEF Sourced
<1>3. CASE said = {}
    <2>1. ReportWasSaid'
        BY <1>1, <1>3 DEF ReportWasSaid, Silent
    <2>2. step' \notin NotDrained => PartOf(OnTheWay', reply')
        <3>1. SUFFICES ASSUME step' \notin NotDrained PROVE PartOf(OnTheWay', reply')
            OBVIOUS
        <3>2. fifo' = <<>> /\ received' = <<>>
            BY <1>1, <1>3, <3>1 DEF Silent
        <3>3. OnTheWay' = <<>> \o (<<>> \o reply')
            BY <1>1, <3>2, Zenon DEF OnTheWay
        <3>4. reply' \in Seq(Bytes)
            BY <1>1, FrameType
        <3>5. <<>> \o reply' = reply'
            BY <3>4, ConcatEmptySeq
        <3>6. OnTheWay' = reply'
            BY <3>3, <3>5
        <3>7. QED
            BY <3>6, PartOfItself
    <2>3. \E f \in Frames : OfFrame(f)'
        BY <1>1, <1>3, <2>2 DEF OfFrame
    <2>4. QED
        BY <2>1, <2>3 DEF Sourced
<1>4. QED
    BY <1>2, <1>3

\* What is reported was received, and what was received is of the reply.
LEMMA EvaluatedWasSaid ==
    ASSUME RfidInv, Silent, Sourced, \A p \in Payloads : Unmistakable(p), Evaluate
    PROVE  ReportWasSaid'
<1>1. /\ step = "evaluate" /\ said' = said
      /\ result' = IF received = <<>> THEN "nothing" ELSE rfid_parse_response_impl(received)
    BY DEF Evaluate, At, lineVars
<1>2. SUFFICES ASSUME result' \in {"ITEM_1", "ITEM_2", "NONE"} PROVE result' \in said
    BY <1>1 DEF ReportWasSaid
<1>3. received # <<>> /\ result' = rfid_parse_response_impl(received)
    BY <1>1, <1>2
<1>4. said # {}
    BY <1>1, <1>3 DEF Silent, NotDrained
<1>5. CASE said = Results
    BY <1>2, <1>5 DEF Results
<1>6. ASSUME NEW f \in Frames, OfFrame(f) PROVE result' \in said
    <2>1. PartOf(OnTheWay, f) /\ said = {Meaning(f)}
        BY <1>1, <1>6 DEF OfFrame, NotDrained
    <2>2. received \in Seq(Bytes) /\ fifo \o coming \in Seq(Bytes)
        BY ScanTypes, Joined
    <2>3. PartOf(received, OnTheWay)
        BY <2>2, FrontIsPart, Zenon DEF OnTheWay
    <2>4. PartOf(received, f)
        BY <2>1, <2>3, PartOfPart
    <2>5. rfid_parse_response_impl(received) = Meaning(f)
        BY <1>2, <1>3, <2>2, <2>4, LossNamesNothingElse
    <2>6. QED
        BY <1>3, <2>1, <2>5
<1>7. QED
    BY <1>4, <1>5, <1>6 DEF Sourced

LEMMA SourcedInitial == RfidInit => Sourced
    BY DEF RfidInit, Sourced, ReportWasSaid

LEMMA SourcedStep ==
    ASSUME RfidInv, Silent, Sourced, \A p \in Payloads : Unmistakable(p), [RfidNext]_rfidVars
    PROVE  Sourced'
<1>1. CASE Begin
    <2>1. /\ result' = "nothing" /\ step' = "drain" /\ UNCHANGED <<coming, reply>>
          /\ said' = IF coming = <<>> THEN {} ELSE {Meaning(reply)}
        BY <1>1 DEF Begin, Goto
    <2>2. ReportWasSaid'
        BY <2>1 DEF ReportWasSaid
    <2>3. CASE coming = <<>>
        BY <2>1, <2>2, <2>3 DEF Sourced
    <2>4. CASE coming # <<>>
        <3>1. reply \in Frames
            BY <2>4 DEF RfidInv, ReplyOK
        <3>2. \E f \in Frames : OfFrame(f)'
            BY <2>1, <2>4, <3>1 DEF OfFrame, NotDrained
        <3>3. QED
            BY <2>2, <3>2 DEF Sourced
    <2>5. QED
        BY <2>3, <2>4
<1>2. CASE Drain
    BY <1>2, DrainedIsSourced
<1>3. CASE ReaderReplies
    BY <1>3, RepliedIsSourced
<1>4. CASE Evaluate
    <2>1. ReportWasSaid'
        BY <1>4, EvaluatedWasSaid
    <2>2. Carries
        BY <1>4 DEF Evaluate, Goto, Carries, lineVars, NotDrained
    <2>3. QED
        BY <2>1, <2>2, CarriedIsSourced
<1>5. CASE \/ WakesUp \/ Phase1Reads \/ Phase1Ends \/ Phase2Reads \/ Phase2Ends
           \/ Phase2Waits \/ CallbackReturns \/ BytesArrive \/ Noise \/ DriverThread
           \/ ConsoleReads \/ send_start_inventory \/ UNCHANGED rfidVars
    <2>1. Carries /\ result' = result
        BY <1>5, LineCarries
    <2>2. ReportWasSaid'
        BY <2>1, SameReport DEF Sourced, Carries
    <2>3. QED
        BY <2>1, <2>2, CarriedIsSourced
<1>6. QED
    BY <1>1, <1>2, <1>3, <1>4, <1>5 DEF RfidNext, ScanStep

\* Bytes may be stolen, dropped from the ring, or come after the scan has ended,
\* and the checksum is never read: still, when no payload can be mistaken for
\* another one by losing bytes, an item, or its absence, is reported only if the
\* reader said so since the scan began.
THEOREM ReportsWereSaid ==
    ASSUME \A p \in Payloads : Unmistakable(p)
    PROVE  RfidSpec => []ReportWasSaid
<1>1. Sourced => ReportWasSaid
    BY DEF Sourced
<1>2. RfidInv /\ Silent /\ Sourced /\ [RfidNext]_rfidVars => Sourced'
    BY SourcedStep
<1>3. QED
    BY <1>1, <1>2, SourcedInitial, RfidInvariant, SilentInvariant, PTL DEF RfidSpec

=================================================================================
