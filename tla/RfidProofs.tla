------------------------------- MODULE RfidProofs -------------------------------
(* Proofs about RfidScan, for buffers of every size, every set of payloads and *)
(* every number of replies and console commands.                              *)
EXTENDS RfidScan, SequenceTheorems, TLAPS

\* Before the first byte is read, and after the last, the buffer is empty.
NothingYet == {"idle", "report", "drain", "drain pause", "sending", "pause 1", "phase 1"}

\* A payload that the search for a tag cannot mistake: no tag, a known tag in
\* its place, or nothing in it that looks like one.
Readable(p) ==
    \/ p = NoTag
    \/ Len(p) >= 9 /\ p[8] = 0 /\ p[9] \in {1, 2}
    \/ /\ Len(p) # 3
       /\ \A i \in 1 .. Len(p) - 1 : ~(p[i] = 0 /\ p[i + 1] \in {1, 2})

--------------------------------------------------------------------------------
(* Frames and buffers *)

\* The smaller of two numbers.
LEMMA SmallerOfTwo ==
    ASSUME NEW a \in Nat, NEW b \in Nat
    PROVE  Min({a, b}) \in Nat /\ Min({a, b}) <= a /\ Min({a, b}) <= b
<1>1. \E x \in {a, b} : \A y \in {a, b} : x <= y
    OBVIOUS
<1>2. Min({a, b}) \in {a, b} /\ \A y \in {a, b} : Min({a, b}) <= y
    BY <1>1 DEF Min
<1>3. QED
    BY <1>2

\* A frame byte by byte.
LEMMA FrameBytes ==
    ASSUME NEW cmd \in {Start, Inventory}, NEW p \in Seq(Bytes), Len(p) < 248
    PROVE  LET f == Frame(cmd, p) IN
              /\ f \in Seq(Bytes) /\ Len(f) = 9 + Len(p)
              /\ f[1] = 82 /\ f[2] = 70 /\ f[3] = 1 /\ f[6] = cmd
              /\ f[7] = 0 /\ f[8] = Len(p)
              /\ \A i \in 1 .. Len(p) : f[8 + i] = p[i]
<1> DEFINE h == Header(cmd, Len(p))
<1>1. Len(p) \in Nat /\ Len(p) \div 256 = 0 /\ Len(p) % 256 = Len(p)
    OBVIOUS
<1>2. h = <<82, 70, 1, 0, 0, cmd, 0, Len(p)>>
    BY <1>1 DEF Header
<1>3. h \in Seq(Bytes) /\ Len(h) = 8
  <2>1. cmd \in Bytes /\ Len(p) \in Bytes
    <3>1. \A n \in Nat : n < 256 => n \in Bytes
      BY DEF Bytes
    <3>2. Len(p) < 256
      BY <1>1
    <3>3. cmd \in Nat /\ cmd < 256
      BY SMT DEF Start, Inventory
    <3>4. QED
      BY <1>1, <3>1, <3>2, <3>3, Zenon
  <2>2. 82 \in Bytes /\ 70 \in Bytes /\ 1 \in Bytes /\ 0 \in Bytes
    BY DEF Bytes
  <2>3. QED
    BY <1>2, <2>1, <2>2
<1>4. h[1] = 82 /\ h[2] = 70 /\ h[3] = 1 /\ h[6] = cmd /\ h[7] = 0 /\ h[8] = Len(p)
    BY <1>2
<1> DEFINE hp == h \o p
<1> HIDE DEF h
<1>5. /\ hp \in Seq(Bytes) /\ Len(hp) = 8 + Len(p)
      /\ \A i \in 1 .. 8 + Len(p) : hp[i] = IF i <= 8 THEN h[i] ELSE p[i - 8]
  <2>1. /\ hp \in Seq(Bytes) /\ Len(hp) = Len(h) + Len(p)
        /\ \A i \in 1 .. Len(h) + Len(p) :
              hp[i] = IF i <= Len(h) THEN h[i] ELSE p[i - Len(h)]
    BY <1>3, ConcatProperties, Zenon
  <2>2. QED
    BY <1>3, <2>1, Zenon
<1>6. Frame(cmd, p) = Append(hp, 70)
    BY DEF Frame, Checksum, h
<1> HIDE DEF hp
<1>7. QED
    BY <1>1, <1>4, <1>5, <1>6 DEF Bytes

\* Every frame of the reader is one of these.
LEMMA FramesOfReader ==
    ASSUME NEW f \in Frames
    PROVE  \E cmd \in {Start, Inventory}, p \in Seq(Bytes) :
              /\ f = Frame(cmd, p) /\ Len(p) < 248
              /\ cmd = Start => p = <<7, 1, 0>>
              /\ cmd = Inventory => p \in Payloads
<1>1. CASE \E p \in Payloads : f = Frame(Inventory, p)
    BY <1>1, RfidConstants DEF Start, Inventory
<1>2. CASE f = Frame(Start, <<7, 1, 0>>)
  <2>1. <<7, 1, 0>> \in Seq(Bytes) /\ Len(<<7, 1, 0>>) < 248
    BY DEF Bytes
  <2>2. Start # Inventory
    BY DEF Start, Inventory
  <2>3. QED
    BY <1>2, <2>1, <2>2, Zenon
<1>3. QED
    BY <1>1, <1>2 DEF Frames

LEMMA FrameType ==
    ASSUME NEW f \in Frames
    PROVE  f \in Seq(Bytes) /\ Len(f) \in Nat /\ Len(f) >= 9
<1>1. PICK cmd \in {Start, Inventory}, p \in Seq(Bytes) : f = Frame(cmd, p) /\ Len(p) < 248
    BY FramesOfReader
<1>2. QED
    BY <1>1, FrameBytes

\* What is left of a sequence of bytes.
LEMMA FromType ==
    ASSUME NEW s \in Seq(Bytes), NEW n \in 0 .. Len(s)
    PROVE  From(s, n) \in Seq(Bytes) /\ Len(From(s, n)) = Len(s) - n
    BY DEF From

\* The ring never holds more than it has places for.
LEMMA KeptFits ==
    ASSUME NEW s \in Seq(Bytes)
    PROVE  Kept(s) \in Seq(Bytes) /\ Len(Kept(s)) < FIFO_SIZE
<1>1. CASE Len(s) < FIFO_SIZE
    BY <1>1 DEF Kept
<1>2. CASE ~(Len(s) < FIFO_SIZE)
  <2>1. Len(s) - FIFO_SIZE + 1 \in 0 .. Len(s)
    BY <1>2, RfidConstants
  <2>2. Kept(s) = From(s, Len(s) - FIFO_SIZE + 1)
    BY <1>2 DEF Kept
  <2>3. QED
    BY <2>1, <2>2, FromType, RfidConstants
<1>3. QED
    BY <1>1, <1>2

\* What the parser says, and what a frame means, is one of the results.
LEMMA ParseGivesResult ==
    ASSUME NEW data
    PROVE  rfid_parse_response_impl(data) \in Results
<1>1. ASSUME NEW frame PROVE rfid_parse_inventory_response(frame) \in Results
  <2>1. \A i : ItemAt(frame, i) \in Results
    BY DEF ItemAt, Results
  <2>2. QED
    BY <2>1, Zenon DEF rfid_parse_inventory_response, Results
<1>2. QED
    BY <1>1, Zenon DEF rfid_parse_response_impl, Results

LEMMA MeaningIsResult ==
    ASSUME NEW f
    PROVE  Meaning(f) \in Results
    BY DEF Meaning, Results

--------------------------------------------------------------------------------
(* Sequences of bytes *)

LEMMA EmptySequence == <<>> \in Seq(Bytes) /\ Len(<<>>) = 0
    OBVIOUS

LEMMA FirstByte ==
    ASSUME NEW s \in Seq(Bytes), s # <<>>
    PROVE  /\ Append(<<>>, Head(s)) \in Seq(Bytes) /\ Len(Append(<<>>, Head(s))) = 1
           /\ Tail(s) \in Seq(Bytes) /\ Len(Tail(s)) = Len(s) - 1
    OBVIOUS

LEMMA Pieces ==
    ASSUME NEW s \in Seq(Bytes), NEW m \in 1 .. Len(s) + 1, NEW n \in m - 1 .. Len(s)
    PROVE  SubSeq(s, m, n) \in Seq(Bytes) /\ Len(SubSeq(s, m, n)) = n - m + 1
    OBVIOUS

LEMMA Joined ==
    ASSUME NEW s \in Seq(Bytes), NEW t \in Seq(Bytes)
    PROVE  s \o t \in Seq(Bytes) /\ Len(s \o t) = Len(s) + Len(t)
    OBVIOUS

LEMMA Whole ==
    ASSUME NEW s \in Seq(Bytes)
    PROVE  From(s, 0) = s
    BY DEF From

\* What rt_device_read takes is there, and there is room for it.
LEMMA TakenFits ==
    ASSUME fifo \in Seq(Bytes), received \in Seq(Bytes), Len(received) < RX_BUF_SIZE
    PROVE  Taken \in 0 .. Len(fifo) /\ Taken <= RX_BUF_SIZE - Len(received) - 1
<1>1. Len(fifo) \in Nat /\ Len(received) \in Nat
    OBVIOUS
<1>2. RX_BUF_SIZE - Len(received) - 1 \in Nat
    BY <1>1, RfidConstants
<1>3. QED
    BY <1>1, <1>2, SmallerOfTwo DEF Taken

--------------------------------------------------------------------------------
(* A reply that was received whole *)

\* What data starts with: the frame of cmd and p, but for its checksum.
Holds(data, cmd, p) ==
    /\ data \in Seq(Bytes) /\ Len(data) >= 8 + Len(p)
    /\ data[1] = 82 /\ data[2] = 70 /\ data[3] = 1 /\ data[6] = cmd
    /\ data[7] = 0 /\ data[8] = Len(p)
    /\ \A i \in 1 .. Len(p) : data[8 + i] = p[i]

\* A buffer that starts with a frame but for its checksum holds it.
LEMMA PrefixHolds ==
    ASSUME NEW cmd \in {Start, Inventory}, NEW p \in Seq(Bytes), Len(p) < 248,
           NEW data \in Seq(Bytes), IsPrefix(Front(Frame(cmd, p)), data)
    PROVE  Holds(data, cmd, p)
<1> DEFINE f == Frame(cmd, p)
           g == Front(f)
<1>1. /\ f \in Seq(Bytes) /\ Len(f) = 9 + Len(p)
      /\ f[1] = 82 /\ f[2] = 70 /\ f[3] = 1 /\ f[6] = cmd /\ f[7] = 0 /\ f[8] = Len(p)
      /\ \A i \in 1 .. Len(p) : f[8 + i] = p[i]
    BY FrameBytes
<1>2. Len(p) \in Nat
    OBVIOUS
<1> HIDE DEF f
<1>3. /\ g \in Seq(Bytes) /\ Len(g) = 8 + Len(p)
      /\ \A i \in 1 .. 8 + Len(p) : g[i] = f[i]
    BY <1>1, <1>2 DEF Front
<1>4. Len(g) <= Len(data) /\ SubSeq(g, 1, Len(g)) = SubSeq(data, 1, Len(g))
    BY DEF IsPrefix, f
<1> HIDE DEF g
<1>5. \A i \in 1 .. 8 + Len(p) : data[i] = g[i]
    BY <1>2, <1>3, <1>4
<1>6. \A i \in 1 .. 8 + Len(p) : data[i] = f[i]
    BY <1>3, <1>5
<1>7. /\ data[1] = f[1] /\ data[2] = f[2] /\ data[3] = f[3]
      /\ data[6] = f[6] /\ data[7] = f[7] /\ data[8] = f[8]
    BY <1>2, <1>6
<1>8. \A i \in 1 .. Len(p) : data[8 + i] = p[i]
    BY <1>1, <1>2, <1>6
<1>9. Len(data) >= 8 + Len(p)
    BY <1>2, <1>3, <1>4
<1>10. QED
    BY <1>1, <1>7, <1>8, <1>9 DEF Holds

\* The first header is the one at the start, and the length is read from it.
LEMMA WholeFrameIsFound ==
    ASSUME NEW cmd \in {Start, Inventory}, NEW p \in Seq(Bytes), Len(p) < 248,
           NEW data, Holds(data, cmd, p)
    PROVE  rfid_parse_response_impl(data) =
              IF cmd = Start THEN "NONE" ELSE rfid_parse_inventory_response(data)
<1>1. Len(data) \in Nat /\ Len(p) \in Nat /\ Len(data) >= 8 + Len(p)
    BY LenProperties DEF Holds
<1>2. \A i \in Nat : i < Len(data) => Byte(data, i) = data[i + 1]
    BY DEF Byte
<1>3. /\ Byte(data, 0) = 82 /\ Byte(data, 1) = 70 /\ Byte(data, 2) = 1
      /\ Byte(data, 5) = cmd /\ Byte(data, 6) = 0 /\ Byte(data, 7) = Len(p)
    BY <1>1, <1>2 DEF Holds
<1>4. 0 \in HeaderAt(data) /\ \A i \in HeaderAt(data) : i \in Nat
    BY <1>1, <1>3 DEF HeaderAt
<1>5. find_valid_frame(data) = 0
  <2>1. \E x \in HeaderAt(data) : \A y \in HeaderAt(data) : x <= y
    BY <1>4
  <2>2. /\ Min(HeaderAt(data)) \in HeaderAt(data)
        /\ \A y \in HeaderAt(data) : Min(HeaderAt(data)) <= y
    BY <2>1 DEF Min
  <2>3. QED
    BY <1>4, <2>2 DEF find_valid_frame
<1>6. From(data, find_valid_frame(data)) = data
    BY <1>5, Whole DEF Holds
<1>7. TotalLen(data) = 8 + Len(p)
    BY <1>1, <1>3 DEF TotalLen, DataLen
<1>8. Start # Inventory
    BY DEF Start, Inventory
<1>9. /\ HeaderAt(data) # {}
      /\ ~(Len(data) < 8 \/ Byte(data, 2) # 1 \/ Len(data) < TotalLen(data))
    BY <1>1, <1>3, <1>4, <1>7
<1>10. rfid_parse_response_impl(data) =
           CASE Byte(data, 5) = Start -> "NONE"
             [] Byte(data, 5) = Inventory -> rfid_parse_inventory_response(data)
             [] OTHER -> "ERROR"
    BY <1>6, <1>9 DEF rfid_parse_response_impl
<1>11. QED
    BY <1>3, <1>8, <1>10

\* What the reader names by a payload.
Named(p) == IF p = NoTag THEN "NONE"
            ELSE IF Len(p) >= 9 /\ p[8] = 0 /\ p[9] = 1 THEN "ITEM_1"
            ELSE IF Len(p) >= 9 /\ p[8] = 0 /\ p[9] = 2 THEN "ITEM_2"
            ELSE "UNKNOWN"

\* The parser reads it from the bytes.
LEMMA PayloadIsUnderstood ==
    ASSUME NEW p \in Seq(Bytes), Len(p) < 248, Readable(p),
           NEW data, Holds(data, Inventory, p)
    PROVE  rfid_parse_inventory_response(data) = Named(p)
<1> DEFINE found == {i \in 8 .. 8 + DataLen(data) :
                        i + 1 < 8 + DataLen(data) /\ TagAt(data, i)}
<1>1. Len(data) \in Nat /\ Len(p) \in Nat /\ Len(data) >= 8 + Len(p)
    BY LenProperties DEF Holds
<1>2. \A i \in 0 .. Len(p) - 1 : Byte(data, 8 + i) = p[i + 1]
  <2>1. SUFFICES ASSUME NEW i \in 0 .. Len(p) - 1 PROVE Byte(data, 8 + i) = p[i + 1]
    OBVIOUS
  <2>2. 8 + i < Len(data) /\ i + 1 \in 1 .. Len(p) /\ 8 + i + 1 = 8 + (i + 1)
    BY <1>1
  <2>3. data[8 + (i + 1)] = p[i + 1]
    BY <2>2 DEF Holds
  <2>4. QED
    BY <2>2, <2>3 DEF Byte
<1>3. DataLen(data) = Len(p) /\ TotalLen(data) = 8 + Len(p)
  <2>1. Byte(data, 6) = 0 /\ Byte(data, 7) = Len(p)
    BY <1>1 DEF Holds, Byte
  <2>2. QED
    BY <1>1, <2>1 DEF TotalLen, DataLen
<1>4. Len(NoTag) = 3
    BY DEF NoTag
<1>5. CASE p = NoTag
  <2>1. Len(p) = 3 /\ p[1] = 7 /\ p[2] = 1 /\ p[3] = 80
    BY <1>5 DEF NoTag
  <2>2. data[9] = 7 /\ data[10] = 1 /\ data[11] = 80
    BY <2>1 DEF Holds
  <2>3. SubSeq(data, 9, 11) = NoTag
    <3>1. SubSeq(data, 9, 11) = <<data[9], data[10], data[11]>>
      <4> DEFINE t == SubSeq(data, 9, 11)
      <4>1. data \in Seq(Bytes) /\ 11 <= Len(data)
        BY <1>1, <2>1 DEF Holds
      <4>2. t \in Seq(Bytes) /\ Len(t) = 3
        BY <4>1
      <4>3. t[1] = data[9] /\ t[2] = data[10] /\ t[3] = data[11]
        BY <4>1
      <4> HIDE DEF t
      <4>4. t = <<t[1], t[2], t[3]>>
        BY <4>2
      <4>5. QED
        BY <4>3, <4>4 DEF t
    <3>2. QED
      BY <2>2, <3>1 DEF NoTag
  <2>4. QED
    BY <1>3, <1>5, <2>1, <2>3 DEF rfid_parse_inventory_response, Named
<1>6. CASE Len(p) >= 9 /\ p[8] = 0 /\ p[9] \in {1, 2}
  <2>1. Byte(data, 15) = 0 /\ Byte(data, 16) = p[9]
    <3>1. 7 \in 0 .. Len(p) - 1 /\ 8 \in 0 .. Len(p) - 1
      BY <1>1, <1>6
    <3>2. Byte(data, 8 + 7) = p[7 + 1] /\ Byte(data, 8 + 8) = p[8 + 1]
      BY <1>2, <3>1
    <3>3. QED
      BY <1>6, <3>2
  <2>2. TagAt(data, 15) /\ ItemAt(data, 15) = IF p[9] = 1 THEN "ITEM_1" ELSE "ITEM_2"
    BY <1>6, <2>1 DEF TagAt, ItemAt
  <2>3. DataLen(data) # 3 /\ TotalLen(data) >= 17
    BY <1>1, <1>3, <1>6
  <2>4. rfid_parse_inventory_response(data) = ItemAt(data, 15)
    BY <2>2, <2>3, Zenon DEF rfid_parse_inventory_response
  <2>5. p # NoTag
    BY <1>4, <1>6
  <2>6. QED
    BY <1>6, <2>2, <2>4, <2>5 DEF Named
<1>7. CASE Len(p) # 3 /\ \A i \in 1 .. Len(p) - 1 : ~(p[i] = 0 /\ p[i + 1] \in {1, 2})
  <2>1. \A j \in 8 .. 8 + Len(p) : j + 1 < 8 + Len(p) => ~TagAt(data, j)
    <3>1. SUFFICES ASSUME NEW j \in 8 .. 8 + Len(p), j + 1 < 8 + Len(p)
                   PROVE  ~TagAt(data, j)
      OBVIOUS
    <3> DEFINE i == j - 7
    <3>2. /\ i \in 1 .. Len(p) - 1 /\ i - 1 \in 0 .. Len(p) - 1 /\ i \in 0 .. Len(p) - 1
          /\ 8 + (i - 1) = j /\ 8 + i = j + 1 /\ i - 1 + 1 = i
      BY <1>1, <3>1
    <3>3. Byte(data, j) = p[i] /\ Byte(data, j + 1) = p[i + 1]
      BY <1>2, <3>2
    <3>4. QED
      BY <1>7, <3>2, <3>3 DEF TagAt
  <2>2. found = {}
    BY <1>3, <2>1
  <2>3. ~(DataLen(data) # 3 /\ TotalLen(data) >= 17 /\ TagAt(data, 15))
    BY <1>1, <1>3, <2>1
  <2>4. rfid_parse_inventory_response(data) = "UNKNOWN"
    BY <1>3, <1>7, <2>2, <2>3, Zenon DEF rfid_parse_inventory_response
  <2>5. Named(p) = "UNKNOWN"
    BY <1>1, <1>4, <1>7 DEF Named
  <2>6. QED
    BY <2>4, <2>5
<1>8. QED
    BY <1>5, <1>6, <1>7 DEF Readable

\* And it is what the frame means.
LEMMA FrameMeansPayload ==
    ASSUME NEW cmd \in {Start, Inventory}, NEW p \in Seq(Bytes), Len(p) < 248,
           cmd = Start => p = <<7, 1, 0>>
    PROVE  Meaning(Frame(cmd, p)) = IF cmd = Start THEN "NONE" ELSE Named(p)
<1> DEFINE f == Frame(cmd, p)
           tag == IF Len(p) < 9 THEN <<>> ELSE SubSeq(p, 8, 9)
<1>1. /\ f \in Seq(Bytes) /\ Len(f) = 9 + Len(p) /\ f[6] = cmd
      /\ \A i \in 1 .. Len(p) : f[8 + i] = p[i]
    BY FrameBytes
<1> HIDE DEF f
<1>2. SubSeq(f, 9, Len(f) - 1) = p
  <2> DEFINE t == SubSeq(f, 9, Len(f) - 1)
  <2>1. Len(p) \in Nat /\ Len(f) - 1 = 8 + Len(p)
    BY <1>1
  <2>2. t \in Seq(Bytes) /\ Len(t) = Len(p)
    <3>1. 9 \in 1 .. Len(f) + 1 /\ Len(f) - 1 \in 9 - 1 .. Len(f)
      BY <1>1, <2>1
    <3>2. t \in Seq(Bytes) /\ Len(t) = (Len(f) - 1) - 9 + 1
      BY <1>1, <3>1, Pieces, Zenon
    <3>3. QED
      BY <2>1, <3>2
  <2>3. \A i \in 1 .. Len(p) : t[i] = f[8 + i]
    BY <1>1, <2>1
  <2> HIDE DEF t
  <2>4. t = p
    BY <1>1, <2>2, <2>3, SeqEqual
  <2>5. QED
    BY <2>4 DEF t
<1>3. /\ tag = <<0, 1>> <=> Len(p) >= 9 /\ p[8] = 0 /\ p[9] = 1
      /\ tag = <<0, 2>> <=> Len(p) >= 9 /\ p[8] = 0 /\ p[9] = 2
  <2>1. CASE Len(p) < 9
    BY <2>1
  <2>2. CASE Len(p) >= 9
    <3>1. tag = <<p[8], p[9]>>
      <4> DEFINE t == SubSeq(p, 8, 9)
      <4>1. t \in Seq(Bytes) /\ Len(t) = 2 /\ t[1] = p[8] /\ t[2] = p[9]
        BY <2>2
      <4> HIDE DEF t
      <4>2. t = <<t[1], t[2]>>
        BY <4>1
      <4>3. tag = t
        BY <2>2 DEF t
      <4>4. QED
        BY <4>1, <4>2, <4>3
    <3>2. QED
      BY <2>2, <3>1
  <2>3. QED
    BY <2>1, <2>2
<1> HIDE DEF tag
<1>4. Meaning(f) = CASE f[6] = Start \/ p = NoTag -> "NONE"
                     [] tag = <<0, 1>> -> "ITEM_1"
                     [] tag = <<0, 2>> -> "ITEM_2"
                     [] OTHER -> "UNKNOWN"
    BY <1>2 DEF Meaning, tag
<1>5. cmd = Start \/ p = NoTag => Len(p) = 3
  <2>1. Len(<<7, 1, 0>>) = 3 /\ Len(NoTag) = 3
    BY DEF NoTag
  <2>2. QED
    BY <2>1, Zenon
<1>6. Meaning(f) = IF cmd = Start THEN "NONE" ELSE Named(p)
    BY <1>1, <1>3, <1>4, <1>5 DEF Named
<1>7. QED
    BY <1>6 DEF f

--------------------------------------------------------------------------------
(* The invariant is inductive: one lemma for each of its parts *)

ScanOK ==
    /\ step \in Steps
    /\ received \in Seq(Bytes) /\ Len(received) < RX_BUF_SIZE
    /\ step \in NothingYet => received = <<>>

RingOK == fifo \in Seq(Bytes) /\ Len(fifo) < FIFO_SIZE

ReplyOK ==
    IF coming = <<>> THEN reply = <<>>
    ELSE /\ reply \in Frames /\ Len(coming) \in 1 .. Len(reply)
         /\ coming = From(reply, Len(reply) - Len(coming))

OthersOK ==
    /\ pending \subseteq {Start, Inventory}
    /\ replies \in 0 .. MaxReplies /\ said \subseteq Results
    /\ console \in {"idle", "waiting"} /\ uses \in 0 .. MaxConsole
    /\ result \in Results \cup {"nothing"}

RfidInv == ScanOK /\ RingOK /\ ReplyOK /\ OthersOK

LEMMA Sizes ==
    /\ RX_BUF_SIZE \in Nat /\ RX_BUF_SIZE > 1
    /\ FIFO_SIZE \in Nat /\ FIFO_SIZE > 0
    /\ MaxReplies \in Nat /\ MaxConsole \in Nat
    BY RfidConstants

LEMMA RfidInitial == RfidInit => RfidInv
<1>1. <<>> \in Seq(Bytes) /\ Len(<<>>) = 0
    OBVIOUS
<1> SUFFICES ASSUME RfidInit PROVE RfidInv
    OBVIOUS
<1>2. ScanOK
    BY <1>1, Sizes DEF RfidInit, ScanOK, Steps
<1>3. RingOK
    BY <1>1, Sizes DEF RfidInit, RingOK
<1>4. ReplyOK /\ OthersOK
    BY Sizes DEF RfidInit, ReplyOK, OthersOK
<1>5. QED
    BY <1>2, <1>3, <1>4 DEF RfidInv

\* Bytes arrive only of a frame, in order.
LEMMA ArrivingBytes ==
    ASSUME ReplyOK, BytesArrive
    PROVE  /\ reply \in Frames /\ reply \in Seq(Bytes) /\ Len(reply) \in Nat
           /\ Len(reply) - Len(coming) \in 0 .. Len(reply) - 1
           /\ \E n \in Nat :
                 /\ n \in Len(reply) - Len(coming) + 1 .. Len(reply)
                 /\ fifo' = Kept(fifo \o SubSeq(reply, Len(reply) - Len(coming) + 1, n))
                 /\ coming' = From(reply, n)
<1>1. PICK n \in Pauses \cup {Len(reply)} :
         /\ n \in Len(reply) - Len(coming) + 1 .. Len(reply)
         /\ fifo' = Kept(fifo \o SubSeq(reply, Len(reply) - Len(coming) + 1, n))
         /\ coming' = SubSeq(reply, n + 1, Len(reply))
    BY DEF BytesArrive
<1>2. CASE coming = <<>>
  <2>1. Len(reply) = 0 /\ Len(coming) = 0
    BY <1>2, EmptySequence DEF ReplyOK
  <2>2. QED
    BY <1>1, <2>1
<1>3. CASE coming # <<>>
  <2>1. reply \in Frames /\ Len(coming) \in 1 .. Len(reply)
    BY <1>3 DEF ReplyOK
  <2>2. reply \in Seq(Bytes) /\ Len(reply) \in Nat
    BY <2>1, FrameType
  <2>3. Len(reply) - Len(coming) \in 0 .. Len(reply) - 1
    BY <2>1, <2>2
  <2>4. n \in Nat
    BY <1>1, <2>3
  <2>5. QED
    BY <1>1, <2>1, <2>2, <2>3, <2>4 DEF From
<1>4. QED
    BY <1>2, <1>3

LEMMA EmptyBufferFits == <<>> \in Seq(Bytes) /\ Len(<<>>) < RX_BUF_SIZE
<1>1. 0 < RX_BUF_SIZE
    BY Sizes
<1>2. QED
    BY <1>1, EmptySequence, Zenon

\* The scan's buffer keeps its last place free.
LEMMA ScanStaysOK ==
    ASSUME ScanOK, RingOK, RfidNext
    PROVE  ScanOK'
<1> USE DEF ScanOK, At, Goto
<1>1. CASE Begin
  <2>1. received' = <<>> /\ step' = "drain"
    BY <1>1 DEF Begin
  <2>2. QED
    BY <2>1, EmptyBufferFits DEF Steps
<1>2. CASE Drain
    BY <1>2 DEF Drain, Steps, Pause, NothingYet
<1>3. CASE WakesUp
    BY <1>3 DEF WakesUp, Steps, Pause, NothingYet
<1>4. CASE Phase1Reads
  <2>1. CASE fifo = <<>>
    BY <1>4, <2>1 DEF Phase1Reads, Steps, Pause, NothingYet
  <2>2. CASE fifo # <<>>
    <3>1. received = <<>> /\ received' = Append(<<>>, Head(fifo)) /\ step' = "phase 2"
      BY <1>4, <2>2 DEF Phase1Reads, NothingYet
    <3>2. received' \in Seq(Bytes) /\ Len(received') = 1
      BY <2>2, <3>1, FirstByte DEF RingOK
    <3>3. QED
      BY <3>1, <3>2, Sizes DEF Steps, NothingYet
  <2>3. QED
    BY <2>1, <2>2
<1>5. CASE Phase1Ends \/ Phase2Ends
    BY <1>5 DEF Phase1Ends, Phase2Ends, Steps, NothingYet
<1>6. CASE Phase2Waits
    BY <1>6 DEF Phase2Waits, Steps, Pause, NothingYet
<1>7. CASE Phase2Reads
  <2>1. /\ Taken \in 0 .. Len(fifo) /\ Taken <= RX_BUF_SIZE - Len(received) - 1
    BY TakenFits DEF RingOK
  <2>2. /\ received' = received \o SubSeq(fifo, 1, Taken)
        /\ step' \in {"evaluate", "pause 2"}
    BY <1>7 DEF Phase2Reads
  <2>3. Len(fifo) \in Nat /\ Len(received) \in Nat /\ Taken \in Nat
    BY <2>1, LenProperties DEF RingOK
  <2>4. /\ SubSeq(fifo, 1, Taken) \in Seq(Bytes)
        /\ Len(SubSeq(fifo, 1, Taken)) = Taken
    <3>1. 1 \in 1 .. Len(fifo) + 1 /\ Taken \in 1 - 1 .. Len(fifo)
      BY <2>1, <2>3
    <3>2. Len(SubSeq(fifo, 1, Taken)) = Taken - 1 + 1
      BY <3>1, Pieces DEF RingOK
    <3>3. QED
      BY <2>3, <3>1, <3>2, Pieces DEF RingOK
  <2>5. received' \in Seq(Bytes) /\ Len(received') = Len(received) + Taken
    BY <2>2, <2>4, Joined
  <2>6. Len(received) + Taken < RX_BUF_SIZE
    BY <2>1, <2>3, Sizes
  <2>7. QED
    BY <2>2, <2>5, <2>6 DEF Steps, Pause, NothingYet
<1>8. CASE Evaluate
  <2>1. received' = <<>> /\ step' \in {"idle", "report"}
    BY <1>8 DEF Evaluate
  <2>2. QED
    BY <2>1, EmptyBufferFits DEF Steps
<1>9. CASE CallbackReturns
    BY <1>9 DEF CallbackReturns, Steps, NothingYet
<1>10. CASE \/ ReaderReplies \/ BytesArrive \/ Noise \/ DriverThread
            \/ send_start_inventory \/ ConsoleReads
  <2>1. UNCHANGED scanVars
    BY <1>10 DEF ReaderReplies, BytesArrive, Noise, DriverThread, send_start_inventory,
                 ConsoleReads
  <2>2. QED
    BY <2>1 DEF scanVars
<1>11. QED
    BY <1>1, <1>2, <1>3, <1>4, <1>5, <1>6, <1>7, <1>8, <1>9, <1>10 DEF RfidNext, ScanStep

\* So does the ring, which lets the oldest byte go.
LEMMA RingStaysOK ==
    ASSUME ScanOK, RingOK, ReplyOK, RfidNext
    PROVE  RingOK'
<1> USE DEF RingOK
<1>1. CASE \/ Begin \/ WakesUp \/ Phase1Ends \/ Phase2Waits \/ Phase2Ends \/ Evaluate
           \/ CallbackReturns \/ ReaderReplies \/ send_start_inventory
  <2>1. UNCHANGED fifo
    BY <1>1 DEF Begin, WakesUp, Phase1Ends, Phase2Waits, Phase2Ends, Evaluate, CallbackReturns,
                ReaderReplies, send_start_inventory
  <2>2. QED
    BY <2>1
<1>2. CASE Drain \/ ConsoleReads
  <2>1. fifo' = <<>>
    BY <1>2 DEF Drain, ConsoleReads
  <2>2. QED
    BY <2>1, EmptySequence, Sizes
<1>3. CASE Phase1Reads \/ DriverThread
  <2>1. UNCHANGED fifo \/ (fifo # <<>> /\ fifo' = Tail(fifo))
    BY <1>3 DEF Phase1Reads, DriverThread
  <2>2. QED
    BY <2>1, FirstByte, Sizes, LenProperties
<1>4. CASE Phase2Reads
  <2>1. Taken \in 0 .. Len(fifo) /\ fifo' = From(fifo, Taken)
    BY <1>4, TakenFits DEF Phase2Reads, ScanOK
  <2>2. fifo' \in Seq(Bytes) /\ Len(fifo') = Len(fifo) - Taken
    BY <2>1, FromType
  <2>3. QED
    BY <2>1, <2>2, Sizes, LenProperties
<1>5. CASE BytesArrive
  <2>1. PICK n \in Nat :
           /\ n \in Len(reply) - Len(coming) + 1 .. Len(reply)
           /\ fifo' = Kept(fifo \o SubSeq(reply, Len(reply) - Len(coming) + 1, n))
    BY <1>5, ArrivingBytes
  <2>2. SubSeq(reply, Len(reply) - Len(coming) + 1, n) \in Seq(Bytes)
    BY <1>5, <2>1, ArrivingBytes, Pieces
  <2>3. fifo \o SubSeq(reply, Len(reply) - Len(coming) + 1, n) \in Seq(Bytes)
    BY <2>2, Joined
  <2>4. QED
    BY <2>1, <2>3, KeptFits
<1>6. CASE Noise
  <2>1. fifo' = Kept(<<0>>)
    BY <1>6 DEF Noise
  <2>2. 0 \in Bytes
    BY DEF Bytes
  <2>3. <<0>> \in Seq(Bytes)
    BY <2>2
  <2>4. QED
    BY <2>1, <2>3, KeptFits
<1>7. QED
    BY <1>1, <1>2, <1>3, <1>4, <1>5, <1>6 DEF RfidNext, ScanStep

\* What is to come is the rest of the reply.
LEMMA ReplyStaysOK ==
    ASSUME ReplyOK, RfidNext
    PROVE  ReplyOK'
<1> USE DEF ReplyOK
<1>1. CASE \/ Begin \/ ScanStep \/ CallbackReturns \/ Noise \/ DriverThread
           \/ send_start_inventory \/ ConsoleReads
  <2>1. UNCHANGED <<reply, coming>>
    BY <1>1 DEF Begin, ScanStep, Drain, WakesUp, Phase1Reads, Phase1Ends, Phase2Reads,
                Phase2Waits, Phase2Ends, Evaluate, CallbackReturns, Noise, DriverThread,
                send_start_inventory, ConsoleReads, lineVars
  <2>2. QED
    BY <2>1
<1>2. CASE ReaderReplies
  <2>1. reply' \in Frames /\ coming' = reply'
    BY <1>2 DEF ReaderReplies
  <2>2. reply' \in Seq(Bytes) /\ Len(reply') \in Nat /\ Len(reply') >= 9
    BY <2>1, FrameType
  <2>3. From(reply', 0) = reply' /\ reply' # <<>>
    BY <2>2, Whole, EmptySequence
  <2>4. Len(coming') \in 1 .. Len(reply') /\ Len(reply') - Len(coming') = 0
    BY <2>1, <2>2
  <2>5. QED
    BY <2>1, <2>3, <2>4
<1>3. CASE BytesArrive
  <2>1. PICK n \in Nat :
           /\ n \in Len(reply) - Len(coming) + 1 .. Len(reply)
           /\ coming' = From(reply, n)
    BY <1>3, ArrivingBytes
  <2>2. /\ reply \in Frames /\ reply \in Seq(Bytes) /\ Len(reply) \in Nat
        /\ n \in 1 .. Len(reply)
        /\ reply' = IF coming' = <<>> THEN <<>> ELSE reply
    BY <1>3, <2>1, ArrivingBytes DEF BytesArrive
  <2>3. coming' \in Seq(Bytes) /\ Len(coming') = Len(reply) - n
    <3>1. n \in 0 .. Len(reply)
      BY <2>2
    <3>2. QED
      BY <2>1, <2>2, <3>1, FromType
  <2>4. CASE coming' = <<>>
    BY <2>2, <2>4
  <2>5. CASE coming' # <<>>
    <3>1. Len(coming') # 0
      BY <2>3, <2>5, EmptySeq
    <3>2. Len(coming') \in 1 .. Len(reply) /\ Len(reply) - Len(coming') = n
      BY <2>2, <2>3, <3>1
    <3>3. QED
      BY <2>1, <2>2, <2>5, <3>2
  <2>6. QED
    BY <2>4, <2>5
<1>4. QED
    BY <1>1, <1>2, <1>3 DEF RfidNext

LEMMA OthersStayOK ==
    ASSUME OthersOK, RfidNext
    PROVE  OthersOK'
<1> USE DEF OthersOK, scanVars, lineVars, consoleVars
<1>1. CASE Begin
    BY <1>1, MeaningIsResult DEF Begin
<1>2. CASE Drain \/ WakesUp \/ Phase1Reads \/ Phase1Ends
    BY <1>2 DEF Drain, WakesUp, Phase1Reads, Phase1Ends
<1>3. CASE Phase2Reads \/ Phase2Waits \/ Phase2Ends
    BY <1>3 DEF Phase2Reads, Phase2Waits, Phase2Ends
<1>4. CASE Evaluate
    BY <1>4, ParseGivesResult DEF Evaluate
<1>5. CASE ReaderReplies
  <2>1. said' \subseteq Results
    BY <1>5, MeaningIsResult DEF ReaderReplies
  <2>2. pending' \subseteq {Start, Inventory} /\ replies' \in 0 .. MaxReplies
    BY <1>5, Sizes DEF ReaderReplies
  <2>3. QED
    BY <1>5, <2>1, <2>2 DEF ReaderReplies
<1>6. CASE CallbackReturns \/ BytesArrive \/ Noise \/ DriverThread \/ ConsoleReads
    BY <1>6 DEF CallbackReturns, BytesArrive, Noise, DriverThread, ConsoleReads
<1>7. CASE send_start_inventory
    BY <1>7, Sizes DEF send_start_inventory
<1>8. QED
    BY <1>1, <1>2, <1>3, <1>4, <1>5, <1>6, <1>7 DEF RfidNext, ScanStep

LEMMA RfidStepInv == RfidInv /\ [RfidNext]_rfidVars => RfidInv'
<1> SUFFICES ASSUME RfidInv, [RfidNext]_rfidVars PROVE RfidInv'
    OBVIOUS
<1>1. CASE UNCHANGED rfidVars
    BY <1>1 DEF rfidVars, scanVars, lineVars, consoleVars, RfidInv, ScanOK, RingOK, ReplyOK,
                OthersOK
<1>2. CASE RfidNext
    BY <1>2, ScanStaysOK, RingStaysOK, ReplyStaysOK, OthersStayOK DEF RfidInv
<1>3. QED
    BY <1>1, <1>2

LEMMA RfidInvariant == RfidSpec => []RfidInv
    BY RfidInitial, RfidStepInv, PTL DEF RfidSpec

--------------------------------------------------------------------------------
(* Theorems *)

\* Neither the ring of the driver nor the buffer of the scan is ever written
\* beyond its end, however long the replies are, however many follow one another
\* and whoever takes bytes from the line in between; and all variables have
\* their types.
THEOREM RfidTypeCorrect == RfidSpec => []RfidTypeOK
<1>1. RfidInv => RfidTypeOK
    BY DEF RfidInv, RfidTypeOK, ScanOK, RingOK, ReplyOK, OthersOK
<1>2. QED
    BY <1>1, RfidInvariant, PTL

\* A reply that names a known tag in its place, says that there is none, or
\* holds nothing like a tag is understood when all but its checksum was received
\* before anything else, whatever the bytes behind it are: for every such reply
\* that fits into the buffer.
THEOREM WholeRepliesAreUnderstood ==
    ASSUME \A p \in Payloads : Readable(p)
    PROVE  RfidSpec => WholeReplyIsUnderstood
<1>1. ASSUME ScanOK, [RfidNext]_rfidVars, NEW f \in Frames,
             Evaluate, IsPrefix(Front(f), received)
      PROVE  result' = Meaning(f)
  <2>1. PICK cmd \in {Start, Inventory}, p \in Seq(Bytes) :
           /\ f = Frame(cmd, p) /\ Len(p) < 248
           /\ cmd = Start => p = <<7, 1, 0>>
           /\ cmd = Inventory => p \in Payloads
    BY FramesOfReader
  <2>2. received \in Seq(Bytes)
    BY <1>1 DEF ScanOK
  <2>3. Holds(received, cmd, p)
    BY <1>1, <2>1, <2>2, PrefixHolds
  <2>4. result' = rfid_parse_response_impl(received)
    BY <1>1, <2>3, EmptySequence DEF Evaluate, Holds
  <2>5. QED
    BY <2>1, <2>3, <2>4, WholeFrameIsFound, PayloadIsUnderstood, FrameMeansPayload
<1>2. RfidInv /\ [RfidNext]_rfidVars =>
         [\A f \in Frames :
             Evaluate /\ IsPrefix(Front(f), received) => result' = Meaning(f)]_rfidVars
    BY <1>1 DEF RfidInv
<1>3. QED
    BY <1>2, RfidInvariant, PTL DEF RfidSpec, WholeReplyIsUnderstood
=================================================================================
