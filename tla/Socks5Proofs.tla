---------------------------- MODULE Socks5Proofs ----------------------------
(***************************************************************************)
(* Proofs about the three parts of the SOCKS5 server, Socks5Session, Relay *)
(* and UdpPacket, for any lengths, ports and buffers.  MCSocks5 lets one   *)
(* of them run; each behaves by its own specification there.               *)
(***************************************************************************)
EXTENDS MCSocks5, SequenceTheorems, TLAPS

LEMMA PartsInit ==
    Init => /\ Session!Init /\ Tunnel!Init
            /\ part \in Parts
            /\ part = "datagram" => Packet!Init
BY DEF Init, SessionRests, Parts

LEMMA PartsStep ==
    [Next]_vars =>
        /\ [Session!Next]_(Session!vars) /\ [Tunnel!Next]_(Tunnel!vars)
        /\ UNCHANGED part
        /\ part = "datagram" => [Packet!Next]_(Packet!vars)
BY DEF Next, vars, InSession, InRelay, InDatagram, sessionVars, relayVars, packetVars,
       Session!vars, Session!config, Tunnel!vars, Tunnel!peers, Tunnel!copies,
       Packet!vars, Packet!sender

(* What is proved of the steps of a part holds of the whole. *)
LEMMA Steps == Spec => Init /\ [][Next]_vars
BY PTL DEF Spec

-----------------------------------------------------------------------------
(* Messages: an address is read as it was written.                          *)

Bytes == INSTANCE Socks5Bytes
ByteSeq == Seq(Bytes!Byte)
Kinds == {"v4", "v6", "name"}

(* The host is one of its kind; a name fits its length byte. *)
Fitted(kind, host) ==
    /\ kind \in Kinds /\ host \in ByteSeq
    /\ kind = "v4" => Len(host) = 4
    /\ kind = "v6" => Len(host) = 16
    /\ kind = "name" => Len(host) <= 255

(* The bytes before the host, and with the host and the port. *)
Start(kind) == IF kind = "name" THEN 5 ELSE 4
Size(kind, host) == Start(kind) + Len(host) + 2

LEMMA Numbers ==
    ASSUME NEW kind, NEW host, Fitted(kind, host)
    PROVE  /\ Len(host) \in Nat /\ Start(kind) \in Nat /\ Size(kind, host) \in Nat
           /\ Len(host) <= 255 /\ Start(kind) >= 4 /\ Start(kind) <= 5
           /\ Size(kind, host) = Start(kind) + Len(host) + 2
<1>1. Len(host) \in Nat
  BY LenProperties DEF Fitted, ByteSeq
<1>2. Start(kind) \in Nat /\ Start(kind) >= 4 /\ Start(kind) <= 5
  BY DEF Start
<1>3. Len(host) = 4 \/ Len(host) = 16 \/ Len(host) <= 255
  BY DEF Fitted, Kinds
<1>4. Len(host) <= 255
  <2>1. \A k : k = 4 \/ k = 16 \/ k <= 255 => k <= 255
    OBVIOUS
  <2>2. QED
    BY <1>3, <2>1
<1>5. QED
  BY <1>1, <1>2, <1>4 DEF Size

LEMMA HeaderRead ==
    ASSUME NEW kind, NEW host, Fitted(kind, host), NEW s, s[4] = Bytes!AddrType[kind],
           kind = "name" => s[5] = Len(host)
    PROVE  /\ Bytes!HostStart(s) = Start(kind) /\ Bytes!HostSize(s) = Len(host)
           /\ Bytes!HeaderSize(s) = Size(kind, host) /\ Bytes!Kind(s[4]) = kind
<1>1. kind \in Kinds /\ Len(host) \in Nat
  BY Numbers DEF Fitted
<1>2. s[4] = IF kind = "v4" THEN 1 ELSE IF kind = "name" THEN 3 ELSE 4
  BY <1>1 DEF Bytes!AddrType, Kinds
<1>3. Bytes!HostStart(s) = Start(kind)
  BY <1>1, <1>2 DEF Bytes!HostStart, Start, Kinds
<1>4. Bytes!HostSize(s) = Len(host)
  <2>1. CASE kind = "v4"
    BY <1>2, <2>1 DEF Bytes!HostSize, Fitted
  <2>2. CASE kind = "v6"
    BY <1>2, <2>2 DEF Bytes!HostSize, Fitted
  <2>3. CASE kind = "name"
    BY <1>2, <2>3 DEF Bytes!HostSize, Fitted
  <2>4. QED
    BY <1>1, <2>1, <2>2, <2>3 DEF Kinds
<1>5. Bytes!Kind(s[4]) = kind
  BY <1>1, <1>2 DEF Bytes!Kind, Kinds
<1>6. QED
  BY <1>3, <1>4, <1>5 DEF Bytes!HeaderSize, Size

LEMMA TypesKnown ==
    ASSUME NEW kind \in Kinds
    PROVE  Bytes!AddrType[kind] \in Bytes!KnownTypes
BY DEF Bytes!AddrType, Bytes!KnownTypes, Kinds

LEMMA Quotient ==
    ASSUME NEW q \in Int, NEW r \in Int, 0 <= r, r < 256, 0 <= q * 256 + r, q * 256 + r <= 65535
    PROVE  0 <= q /\ q <= 255
OBVIOUS

(* A port, and its two bytes. *)
PortNumbers == {p \in Nat : p <= 65535}
High(p) == p \div 256
Low(p) == p % 256

LEMMA ShortLength == \A n \in Nat : n <= 255 => Low(n) = n /\ n \in Bytes!Byte
BY DEF Low, Bytes!Byte

LEMMA PortBytes ==
    ASSUME NEW p \in PortNumbers
    PROVE  /\ High(p) * 256 + Low(p) = p
           /\ Low(High(p)) = High(p)
           /\ High(p) \in Bytes!Byte /\ Low(p) \in Bytes!Byte
<1>1. p \in Int /\ 0 <= p /\ p <= 65535
  BY DEF PortNumbers
<1>2. High(p) \in Int /\ Low(p) \in Int /\ 0 <= Low(p) /\ Low(p) < 256
  BY <1>1 DEF High, Low
<1>3. High(p) * 256 + Low(p) = p
  BY <1>1 DEF High, Low
<1>4. 0 <= High(p) /\ High(p) <= 255
  BY <1>1, <1>2, <1>3, Quotient
<1>6. Low(High(p)) = High(p)
  BY <1>2, <1>4, ShortLength
<1>7. High(p) \in Bytes!Byte
  BY <1>2, <1>4 DEF Bytes!Byte
<1>8. Low(p) \in Bytes!Byte
  BY <1>2 DEF Bytes!Byte
<1>9. QED
  BY <1>3, <1>6, <1>7, <1>8

(* Whatever the number, two bytes are written. *)
LEMMA PortWritten ==
    ASSUME NEW p \in Nat
    PROVE  /\ Bytes!Port16(p) = <<Low(High(p)), Low(p)>>
           /\ Bytes!Port16(p) \in ByteSeq /\ Len(Bytes!Port16(p)) = 2
<1>1. Bytes!Port16(p) = <<Low(High(p)), Low(p)>>
  BY DEF Bytes!Port16, Low, High
<1>2. High(p) \in Nat
  BY DEF High
<1>3. \A n \in Nat : Low(n) \in Nat /\ Low(n) <= 255
  BY DEF Low
<1>4. Low(High(p)) \in Bytes!Byte /\ Low(p) \in Bytes!Byte
  <2>1. \A n \in Nat : Low(n) \in Bytes!Byte
    <3>1. \A n \in Nat : n <= 255 => n \in Bytes!Byte
      BY DEF Bytes!Byte
    <3>2. QED
      BY <1>3, <3>1
  <2>2. QED
    BY <1>2, <2>1
<1>5. QED
  BY <1>1, <1>4 DEF ByteSeq

(* The library's facts, of bytes. *)
LEMMA BytesAre ==
    ASSUME NEW s \in ByteSeq
    PROVE  Len(s) \in Nat /\ \A i \in 1..Len(s) : s[i] \in Bytes!Byte
BY LenProperties, ElementOfSeq DEF ByteSeq

LEMMA Equal ==
    ASSUME NEW s \in ByteSeq, NEW t \in ByteSeq, Len(s) = Len(t), \A i \in 1..Len(s) : s[i] = t[i]
    PROVE  s = t
BY SeqEqual DEF ByteSeq

(* What the facts below are about: each is used of these sequences only. *)
Two(s, t) == s \in ByteSeq /\ t \in ByteSeq
Three(s, t, u) == s \in ByteSeq /\ t \in ByteSeq /\ u \in ByteSeq
Within(s, m, k) == s \in ByteSeq /\ m + k <= Len(s)
Holds(s, m) == s \in ByteSeq /\ m <= Len(s)

LEMMA Joined ==
    ASSUME NEW s, NEW t, Two(s, t)
    PROVE  /\ s \o t \in ByteSeq /\ Len(s \o t) = Len(s) + Len(t)
           /\ \A i \in 1..Len(s) : (s \o t)[i] = s[i]
           /\ \A i \in 1..Len(t) : (s \o t)[Len(s) + i] = t[i]
<1> USE DEF ByteSeq, Two
<1>1. Len(s) \in Nat /\ Len(t) \in Nat
  BY LenProperties
<1>2. /\ s \o t \in Seq(Bytes!Byte) /\ Len(s \o t) = Len(s) + Len(t)
      /\ \A i \in 1..Len(s) + Len(t) : (s \o t)[i] = IF i <= Len(s) THEN s[i] ELSE t[i - Len(s)]
  BY ConcatProperties
<1>3. ASSUME NEW i \in 1..Len(s) PROVE (s \o t)[i] = s[i]
  BY <1>1, <1>2
<1>4. ASSUME NEW i \in 1..Len(t) PROVE (s \o t)[Len(s) + i] = t[i]
  BY <1>1, <1>2
<1>5. QED
  BY <1>2, <1>3, <1>4

LEMMA Grouped ==
    ASSUME NEW s, NEW t, NEW u, Three(s, t, u)
    PROVE  (s \o t) \o u = s \o (t \o u)
BY ConcatAssociative DEF ByteSeq, Three

(* A piece of a message, by the bytes before it and its length. *)
LEMMA Slice ==
    ASSUME NEW s, NEW m \in Nat, NEW k \in Nat, Within(s, m, k)
    PROVE  /\ SubSeq(s, m + 1, m + k) \in ByteSeq
           /\ Len(SubSeq(s, m + 1, m + k)) = k
           /\ \A i \in 1..k : SubSeq(s, m + 1, m + k)[i] = s[m + i]
<1>0. s \in ByteSeq /\ m + k <= Len(s)
  BY DEF Within
<1>1. Len(s) \in Nat /\ \A i \in 1..Len(s) : s[i] \in Bytes!Byte
  BY <1>0, BytesAre
<1>2. ASSUME NEW i \in (m + 1)..(m + k) PROVE s[i] \in Bytes!Byte
  <2>1. i \in 1..Len(s)
    BY <1>0, <1>1
  <2>2. QED
    BY <1>1, <2>1
<1>3. m + 1 \in Int /\ m + k \in Int
  BY <1>0
<1>4. /\ SubSeq(s, m + 1, m + k) \in ByteSeq
      /\ Len(SubSeq(s, m + 1, m + k)) = IF m + 1 <= m + k THEN m + k - (m + 1) + 1 ELSE 0
      /\ \A i \in 1..(m + k - (m + 1) + 1) : SubSeq(s, m + 1, m + k)[i] = s[m + 1 + i - 1]
  BY <1>2, <1>3, SubSeqProperties DEF ByteSeq
<1>5. Len(SubSeq(s, m + 1, m + k)) = k
  BY <1>0, <1>4
<1>6. ASSUME NEW i \in 1..k PROVE SubSeq(s, m + 1, m + k)[i] = s[m + i]
  <2>1. m + k - (m + 1) + 1 = k /\ m + 1 + i - 1 = m + i
    BY <1>0
  <2>2. QED
    BY <1>4, <2>1
<1>7. QED
  BY <1>4, <1>5, <1>6

(* What is left of a message without its first m bytes. *)
LEMMA Rest ==
    ASSUME NEW s, NEW m \in Nat, Holds(s, m)
    PROVE  /\ Bytes!Drop(s, m) \in ByteSeq
           /\ Len(Bytes!Drop(s, m)) = Len(s) - m
           /\ \A i \in 1..(Len(s) - m) : Bytes!Drop(s, m)[i] = s[m + i]
<1> DEFINE k == Len(s) - m
<1>0. s \in ByteSeq /\ m \in Nat /\ m <= Len(s) /\ Len(s) \in Nat
  BY BytesAre DEF Holds
<1>1. k \in Nat /\ m + k = Len(s)
  BY <1>0
<1> HIDE DEF k
<1>5. Within(s, m, k)
  BY <1>0, <1>1 DEF Within
<1>2. /\ SubSeq(s, m + 1, m + k) \in ByteSeq /\ Len(SubSeq(s, m + 1, m + k)) = k
      /\ \A i \in 1..k : SubSeq(s, m + 1, m + k)[i] = s[m + i]
  BY <1>1, <1>5, Slice
<1>3. Bytes!Drop(s, m) = SubSeq(s, m + 1, m + k)
  BY <1>1 DEF Bytes!Drop
<1>4. QED
  BY <1>2, <1>3 DEF k

(* Pieces of a message, by the pieces before them. *)
LEMMA Pieces ==
    ASSUME NEW a, NEW b, NEW c, Three(a, b, c)
    PROVE  /\ (a \o b) \o c \in ByteSeq
           /\ Len((a \o b) \o c) = Len(a) + Len(b) + Len(c)
           /\ \A i \in 1..Len(a) : ((a \o b) \o c)[i] = a[i]
           /\ \A i \in 1..Len(c) : ((a \o b) \o c)[Len(a) + Len(b) + i] = c[i]
           /\ SubSeq((a \o b) \o c, Len(a) + 1, Len(a) + Len(b)) = b
           /\ Bytes!Drop((a \o b) \o c, Len(a) + Len(b)) = c
<1> DEFINE r == a \o b
           s == r \o c
           m == Len(a)
           k == Len(b)
           l == Len(c)
<1>0. a \in ByteSeq /\ b \in ByteSeq /\ c \in ByteSeq
  BY DEF Three
<1>1. m \in Nat /\ k \in Nat /\ l \in Nat
  BY <1>0, BytesAre
<1>2. /\ r \in ByteSeq /\ Len(r) = m + k
      /\ \A i \in 1..m : r[i] = a[i]
      /\ \A i \in 1..k : r[m + i] = b[i]
  <2>1. Two(a, b)
    BY <1>0 DEF Two
  <2>2. QED
    BY <2>1, Joined
<1> HIDE DEF r
<1>3. /\ s \in ByteSeq /\ Len(s) = Len(r) + l
      /\ \A i \in 1..Len(r) : s[i] = r[i]
      /\ \A i \in 1..l : s[Len(r) + i] = c[i]
  <2>1. Two(r, c)
    BY <1>0, <1>2 DEF Two
  <2>2. QED
    BY <2>1, Joined
<1> HIDE DEF s, m, k, l
<1>4. ASSUME NEW i \in 1..m PROVE s[i] = a[i]
  BY <1>1, <1>2, <1>3
<1>5. ASSUME NEW i \in 1..k PROVE s[m + i] = b[i]
  <2>1. m + i \in 1..(m + k)
    BY <1>1
  <2>2. QED
    BY <1>2, <1>3, <2>1
<1>6. \A i \in 1..l : s[m + k + i] = c[i]
  BY <1>2, <1>3
<1>7. SubSeq(s, m + 1, m + k) = b
  <2> DEFINE t == SubSeq(s, m + 1, m + k)
  <2>1. Within(s, m, k)
    BY <1>1, <1>2, <1>3 DEF Within
  <2>2. t \in ByteSeq /\ Len(t) = k /\ \A i \in 1..k : t[i] = s[m + i]
    BY <1>1, <2>1, Slice
  <2> HIDE DEF t
  <2>3. t = b
    BY <1>0, <1>5, <2>2, Equal DEF k
  <2>4. QED
    BY <2>3 DEF t
<1>8. Bytes!Drop(s, m + k) = c
  <2> DEFINE z == m + k
             t == Bytes!Drop(s, z)
  <2>1. z \in Nat /\ Holds(s, z) /\ Len(s) - z = l /\ \A i \in 1..l : s[z + i] = c[i]
    BY <1>1, <1>2, <1>3, <1>6 DEF Holds
  <2> HIDE DEF z
  <2>2. /\ t \in ByteSeq /\ Len(t) = Len(s) - z
        /\ \A i \in 1..(Len(s) - z) : t[i] = s[z + i]
    BY <2>1, Rest
  <2> HIDE DEF t
  <2>3. t = c
    BY <1>0, <2>1, <2>2, Equal DEF l
  <2>4. QED
    BY <2>3 DEF t, z
<1>9. s = (a \o b) \o c
  BY DEF s, r
<1>10. QED
  BY <1>2, <1>3, <1>4, <1>6, <1>7, <1>8, <1>9 DEF m, k, l

(* A beginning of a message has its bytes. *)
LEMMA Beginning ==
    ASSUME NEW s, NEW n \in Nat, Holds(s, n)
    PROVE  /\ SubSeq(s, 1, n) \in ByteSeq /\ Len(SubSeq(s, 1, n)) = n
           /\ \A i \in 1..n : SubSeq(s, 1, n)[i] = s[i]
<1>1. s \in ByteSeq /\ n \in Nat /\ n <= Len(s) /\ Len(s) \in Nat
  BY BytesAre DEF Holds
<1> DEFINE m == 0
<1>2. m \in Nat /\ Within(s, m, n) /\ SubSeq(s, m + 1, m + n) = SubSeq(s, 1, n)
  BY <1>1 DEF Within
<1> HIDE DEF m
<1>3. /\ SubSeq(s, m + 1, m + n) \in ByteSeq /\ Len(SubSeq(s, m + 1, m + n)) = n
      /\ \A i \in 1..n : SubSeq(s, m + 1, m + n)[i] = s[m + i]
  BY <1>2, Slice
<1>4. \A i \in 1..n : m + i = i
  BY DEF m
<1>5. QED
  BY <1>2, <1>3, <1>4

(* A piece of a beginning is one of the whole. *)
(* k bytes of t and of s, after the first m, are the same. *)
SamePiece(t, s, m, k) == SubSeq(t, m + 1, m + k) = SubSeq(s, m + 1, m + k)

LEMMA PieceOfBeginning ==
    ASSUME NEW s, NEW n \in Nat, Holds(s, n), NEW t, t = SubSeq(s, 1, n),
           NEW m \in Nat, NEW k \in Nat, Within(t, m, k)
    PROVE  SamePiece(t, s, m, k)
<1> DEFINE p == SubSeq(t, m + 1, m + k)
           q == SubSeq(s, m + 1, m + k)
<1>1. t \in ByteSeq /\ Len(t) = n /\ \A i \in 1..n : t[i] = s[i]
  BY Beginning
<1>2. s \in ByteSeq /\ n \in Nat /\ n <= Len(s) /\ Len(s) \in Nat
  BY BytesAre DEF Holds
<1>3. p \in ByteSeq /\ Len(p) = k /\ \A i \in 1..k : p[i] = t[m + i]
  BY Slice
<1>4. m + k <= Len(t)
  BY DEF Within
<1> HIDE DEF p
<1>5. Within(s, m, k)
  BY <1>1, <1>2, <1>4 DEF Within
<1>6. q \in ByteSeq /\ Len(q) = k /\ \A i \in 1..k : q[i] = s[m + i]
  BY <1>5, Slice
<1> HIDE DEF q
<1>7. \A i \in 1..k : m + i \in 1..n
  BY <1>1, <1>2, <1>4
<1>8. \A i \in 1..k : p[i] = q[i]
  BY <1>1, <1>3, <1>6, <1>7
<1>9. p = q
  BY <1>3, <1>6, <1>8, Equal
<1>10. QED
  BY <1>9 DEF p, q, SamePiece

(* A message: three bytes, an address with its port, and what follows. *)
Message(h, kind, host, p, data) == h \o Bytes!Encoded(kind, host) \o Bytes!Port16(p) \o data

(* A message that can be read back. *)
Lead(h) == h \in ByteSeq /\ Len(h) = 3
Readable(h, kind, host, p, data) ==
    /\ Lead(h) /\ data \in ByteSeq
    /\ Fitted(kind, host) /\ p \in PortNumbers

(* What comes before the host, without and with the first three bytes. *)
TypeByte(kind) == <<Bytes!AddrType[kind]>>
LengthByte(kind, host) == IF kind = "name" THEN <<Low(Len(host))>> ELSE <<>>
Marks(kind, host) == TypeByte(kind) \o LengthByte(kind, host)
Header(h, kind, host) == h \o Marks(kind, host)

(* A message cut after the header, after the host, and after the port. *)
Shape(s, a, host, port, data) ==
    /\ s = ((a \o host) \o port) \o data /\ s = (a \o host) \o (port \o data)
    /\ a \o host \in ByteSeq /\ Len(a \o host) = Len(a) + Len(host)
    /\ port \o data \in ByteSeq /\ Len(port \o data) = 2 + Len(data)
    /\ \A i \in 1..2 : (port \o data)[i] = port[i]

LEMMA Hosts ==
    ASSUME NEW kind, NEW host, Fitted(kind, host)
    PROVE  host \in ByteSeq /\ kind \in Kinds
BY DEF Fitted

LEMMA TypeBytes == \A kind \in Kinds : Bytes!AddrType[kind] \in Bytes!Byte
<1>1. Bytes!AddrType["v4"] = 1 /\ Bytes!AddrType["name"] = 3 /\ Bytes!AddrType["v6"] = 4
  BY DEF Bytes!AddrType
<1>2. 1 \in Bytes!Byte /\ 3 \in Bytes!Byte /\ 4 \in Bytes!Byte
  BY DEF Bytes!Byte
<1>3. QED
  BY <1>1, <1>2 DEF Kinds

LEMMA OneByte ==
    ASSUME NEW b \in Bytes!Byte
    PROVE  <<b>> \in ByteSeq /\ Len(<<b>>) = 1 /\ <<b>>[1] = b
BY DEF ByteSeq

LEMMA NoBytes == <<>> \in ByteSeq /\ Len(<<>>) = 0
BY EmptySeq DEF ByteSeq

LEMMA MarksAre ==
    ASSUME NEW kind, NEW host, Fitted(kind, host)
    PROVE  /\ TypeByte(kind) \in ByteSeq /\ LengthByte(kind, host) \in ByteSeq
           /\ Marks(kind, host) \in ByteSeq
           /\ kind = "name" => Len(Marks(kind, host)) = 2
           /\ kind # "name" => Len(Marks(kind, host)) = 1
           /\ Marks(kind, host)[1] = Bytes!AddrType[kind]
           /\ kind = "name" => Marks(kind, host)[2] = Len(host)
<1>1. kind \in Kinds /\ Len(host) \in Nat /\ Len(host) <= 255
  BY Numbers, Hosts
<1> DEFINE t == TypeByte(kind)
           l == LengthByte(kind, host)
           r == t \o l
<1>2. t \in ByteSeq /\ Len(t) = 1 /\ t[1] = Bytes!AddrType[kind]
  <2>1. Bytes!AddrType[kind] \in Bytes!Byte
    BY <1>1, TypeBytes
  <2>2. QED
    BY <2>1, OneByte DEF TypeByte
<1>3. kind = "name" => l \in ByteSeq /\ Len(l) = 1 /\ l[1] = Len(host)
  <2>1. Low(Len(host)) = Len(host) /\ Len(host) \in Bytes!Byte
    BY <1>1, ShortLength
  <2>2. <<Len(host)>> \in ByteSeq /\ Len(<<Len(host)>>) = 1 /\ <<Len(host)>>[1] = Len(host)
    BY <2>1, OneByte
  <2>3. QED
    BY <2>1, <2>2 DEF LengthByte
<1>4. kind # "name" => l \in ByteSeq /\ Len(l) = 0
  BY NoBytes DEF LengthByte
<1> HIDE DEF t, l
<1>5. /\ r \in ByteSeq /\ Len(r) = Len(t) + Len(l)
      /\ \A i \in 1..Len(t) : r[i] = t[i]
      /\ \A i \in 1..Len(l) : r[Len(t) + i] = l[i]
  <2>1. Two(t, l)
    BY <1>2, <1>3, <1>4 DEF Two
  <2>2. QED
    BY <2>1, Joined
<1> HIDE DEF r
<1>6. /\ (kind = "name" => Len(r) = 2) /\ (kind # "name" => Len(r) = 1)
      /\ r[1] = Bytes!AddrType[kind]
  <2>0. Len(r) = Len(t) + Len(l)
    BY <1>5
  <2>1. ASSUME kind = "name" PROVE Len(r) = 2
    <3>1. Len(t) = 1 /\ Len(l) = 1
      BY <1>2, <1>3, <2>1
    <3>2. QED
      BY <2>0, <2>1, <3>1
  <2>2. ASSUME kind # "name" PROVE Len(r) = 1
    <3>1. Len(t) = 1 /\ Len(l) = 0
      BY <1>2, <1>4, <2>2
    <3>2. QED
      BY <2>0, <2>2, <3>1
  <2>4. 1 \in 1..Len(t)
    BY <1>2
  <2>5. r[1] = t[1]
    BY <1>5, <2>4
  <2>6. QED
    BY <1>2, <2>1, <2>2, <2>5
<1>7. kind = "name" => r[2] = Len(host)
  <2>1. SUFFICES ASSUME kind = "name" PROVE r[2] = Len(host)
    OBVIOUS
  <2>0. 1 \in 1..Len(l)
    BY <1>3, <2>1
  <2>2. r[Len(t) + 1] = l[1]
    BY <1>5, <2>0
  <2>3. Len(t) + 1 = 2
    BY <1>2
  <2>4. QED
    BY <1>3, <2>1, <2>2, <2>3
<1>8. QED
  BY <1>2, <1>3, <1>4, <1>5, <1>6, <1>7 DEF r, t, l, Marks

LEMMA HeaderBytes ==
    ASSUME NEW h, Lead(h), NEW kind, NEW host, Fitted(kind, host)
    PROVE  /\ Header(h, kind, host) \in ByteSeq /\ Len(Header(h, kind, host)) = Start(kind)
           /\ \A i \in 1..3 : Header(h, kind, host)[i] = h[i]
           /\ Header(h, kind, host)[4] = Bytes!AddrType[kind]
           /\ kind = "name" => Header(h, kind, host)[5] = Len(host)
<1> DEFINE r == Marks(kind, host)
           a == h \o r
<1>1. /\ r \in ByteSeq /\ r[1] = Bytes!AddrType[kind]
      /\ kind = "name" => r[2] = Len(host)
  BY MarksAre
<1>2. (kind = "name" => Len(r) = 2) /\ (kind # "name" => Len(r) = 1)
  BY MarksAre
<1> HIDE DEF r
<1>3. /\ a \in ByteSeq /\ Len(a) = Len(h) + Len(r)
      /\ \A i \in 1..Len(h) : a[i] = h[i]
      /\ \A i \in 1..Len(r) : a[Len(h) + i] = r[i]
  <2>1. Two(h, r)
    BY <1>1 DEF Two, Lead
  <2>2. QED
    BY <2>1, Joined
<1> HIDE DEF a
<1>4. a[3 + 1] = r[1]
  <2>1. 1 \in 1..Len(r)
    BY <1>1, <1>2
  <2>2. a[Len(h) + 1] = r[1]
    BY <1>3, <2>1
  <2>3. QED
    BY <2>2 DEF Lead
<1>5. kind = "name" => a[3 + 2] = r[2]
  <2>0. \A i \in Nat : i = 2 => 2 \in 1..i
    OBVIOUS
  <2>1. kind = "name" => 2 \in 1..Len(r)
    BY <1>2, <2>0
  <2>2. kind = "name" => a[Len(h) + 2] = r[2]
    BY <1>3, <2>1
  <2>3. QED
    BY <2>2 DEF Lead
<1>6. Len(a) = Start(kind)
  <2>1. Len(h) = 3 /\ Len(a) = Len(h) + Len(r)
    BY <1>3 DEF Lead
  <2>2. CASE kind = "name"
    <3>1. Len(r) = 2
      BY <1>2, <2>2
    <3>2. Len(a) = 5
      BY <2>1, <3>1
    <3>3. QED
      BY <2>2, <3>2 DEF Start
  <2>3. CASE kind # "name"
    <3>1. Len(r) = 1
      BY <1>2, <2>3
    <3>2. Len(a) = 4
      BY <2>1, <3>1
    <3>3. QED
      BY <2>3, <3>2 DEF Start
  <2>4. QED
    BY <2>2, <2>3
<1>7. a = Header(h, kind, host)
  BY DEF a, r, Header
<1>8. QED
  BY <1>1, <1>3, <1>4, <1>5, <1>6, <1>7 DEF Lead

LEMMA PortSent ==
    ASSUME NEW p \in PortNumbers
    PROVE  /\ Bytes!Port16(p) \in ByteSeq /\ Len(Bytes!Port16(p)) = 2
           /\ Bytes!Port16(p)[1] * 256 + Bytes!Port16(p)[2] = p
<1>1. p \in Nat
  BY DEF PortNumbers
<1>2. Low(High(p)) = High(p) /\ High(p) * 256 + Low(p) = p
  BY PortBytes
<1>3. /\ Bytes!Port16(p) \in ByteSeq /\ Len(Bytes!Port16(p)) = 2
      /\ Bytes!Port16(p) = <<Low(High(p)), Low(p)>>
  BY <1>1, PortWritten
<1>4. Bytes!Port16(p)[1] = Low(High(p)) /\ Bytes!Port16(p)[2] = Low(p)
  BY <1>3
<1>5. QED
  BY <1>2, <1>3, <1>4

LEMMA MessageShape ==
    ASSUME NEW h, NEW kind, NEW host, NEW p, NEW data, Readable(h, kind, host, p, data)
    PROVE  Shape(Message(h, kind, host, p, data), Header(h, kind, host), host, Bytes!Port16(p), data)
<1> DEFINE t == TypeByte(kind)
           l == LengthByte(kind, host)
           r == Marks(kind, host)
           a == Header(h, kind, host)
           port == Bytes!Port16(p)
           q == a \o host
<1>1. h \in ByteSeq /\ host \in ByteSeq /\ data \in ByteSeq
  BY Hosts DEF Readable, Lead
<1>2. t \in ByteSeq /\ l \in ByteSeq /\ r \in ByteSeq /\ r = t \o l
  BY MarksAre DEF Readable, Marks
<1>3. a \in ByteSeq /\ Len(a) = Start(kind) /\ a = h \o r
  BY HeaderBytes DEF Readable, Header
<1>4. port \in ByteSeq /\ Len(port) = 2
  BY PortSent DEF Readable
<1>5. Bytes!Encoded(kind, host) = (t \o l) \o host
  BY DEF Bytes!Encoded, Low, TypeByte, LengthByte
<1> HIDE DEF t, l, r, a, port
<1>6. h \o (r \o host) = q
  <2>1. Three(h, r, host)
    BY <1>1, <1>2 DEF Three
  <2>2. QED
    BY <1>3, <2>1, Grouped
<1>7. Message(h, kind, host, p, data) = (q \o port) \o data
  BY <1>2, <1>5, <1>6 DEF Message, port
<1>8. q \in ByteSeq /\ Len(q) = Len(a) + Len(host)
  <2>1. Two(a, host)
    BY <1>1, <1>3 DEF Two
  <2>2. QED
    BY <2>1, Joined
<1> HIDE DEF q
<1>9. (q \o port) \o data = q \o (port \o data)
  <2>1. Three(q, port, data)
    BY <1>1, <1>4, <1>8 DEF Three
  <2>2. QED
    BY <2>1, Grouped
<1>10. /\ port \o data \in ByteSeq /\ Len(port \o data) = 2 + Len(data)
       /\ \A i \in 1..2 : (port \o data)[i] = port[i]
  <2>1. Two(port, data)
    BY <1>1, <1>4 DEF Two
  <2>2. /\ port \o data \in ByteSeq /\ Len(port \o data) = Len(port) + Len(data)
        /\ \A i \in 1..Len(port) : (port \o data)[i] = port[i]
    BY <2>1, Joined
  <2>3. QED
    BY <1>4, <2>2
<1>11. QED
  BY <1>3, <1>7, <1>8, <1>9, <1>10 DEF q, a, port, Shape

(* readAddress reads the address that was written, the header ends where what
   follows begins, and no byte is lost. *)
LEMMA MessageRead ==
    ASSUME NEW h, NEW kind, NEW host, NEW p, NEW data, Readable(h, kind, host, p, data),
           NEW s, s = Message(h, kind, host, p, data)
    PROVE  /\ s \in ByteSeq /\ Len(s) = Size(kind, host) + Len(data)
           /\ \A i \in 1..3 : s[i] = h[i]
           /\ s[4] = Bytes!AddrType[kind] /\ (kind = "name" => s[5] = Len(host))
           /\ Bytes!HeaderSize(s) = Size(kind, host)
           /\ Bytes!Decoded(s) = Bytes!Address(kind, host, p)
           /\ Bytes!Drop(s, Size(kind, host)) = data
<1> DEFINE a == Header(h, kind, host)
           port == Bytes!Port16(p)
           q == a \o host
           c == port \o data
           m == Start(kind)
           k == Len(host)
           size == Size(kind, host)
<1>0. Fitted(kind, host) /\ data \in ByteSeq /\ Lead(h) /\ p \in PortNumbers
  BY DEF Readable
<1>1. /\ k \in Nat /\ m \in Nat /\ m >= 4 /\ (kind = "name" => m = 5)
      /\ size = m + k + 2 /\ size \in Nat
  BY <1>0, Numbers DEF Start
<1>2. host \in ByteSeq /\ Len(data) \in Nat
  BY <1>0, Hosts, BytesAre
<1>3. /\ a \in ByteSeq /\ Len(a) = m
      /\ \A i \in 1..3 : a[i] = h[i]
      /\ a[4] = Bytes!AddrType[kind]
      /\ kind = "name" => a[5] = k
  BY <1>0, HeaderBytes
<1>4. /\ s = (q \o port) \o data /\ s = q \o c
      /\ q \in ByteSeq /\ Len(q) = m + k
      /\ c \in ByteSeq /\ Len(c) = 2 + Len(data)
      /\ \A i \in 1..2 : c[i] = port[i]
  <2>1. Shape(s, a, host, port, data)
    BY MessageShape
  <2>2. QED
    BY <1>3, <2>1 DEF Shape
<1>5. port \in ByteSeq /\ Len(port) = 2 /\ port[1] * 256 + port[2] = p
  BY <1>0, PortSent
<1> HIDE DEF a, port, c, m, k, size
<1>6. /\ s \in ByteSeq /\ Len(s) = Len(a) + Len(host) + Len(c)
      /\ \A i \in 1..Len(a) : s[i] = a[i]
      /\ \A i \in 1..Len(c) : s[Len(a) + Len(host) + i] = c[i]
      /\ SubSeq(s, Len(a) + 1, Len(a) + Len(host)) = host
  <2>1. Three(a, host, c) /\ s = (a \o host) \o c
    BY <1>2, <1>3, <1>4 DEF Three
  <2>2. QED
    BY <2>1, Pieces
<1> HIDE DEF q
<1>7. Len(s) = size + Len(data) /\ SubSeq(s, m + 1, m + k) = host
  <2>1. Len(a) = m /\ Len(host) = k /\ Len(c) = 2 + Len(data) /\ size = m + k + 2
    BY <1>1, <1>2, <1>3, <1>4 DEF k
  <2>2. Len(s) = m + k + (2 + Len(data)) /\ SubSeq(s, m + 1, m + k) = host
    BY <1>6, <2>1, Zenon
  <2>3. QED
    BY <1>1, <1>2, <2>1, <2>2
<1>8. (\A i \in 1..3 : s[i] = h[i]) /\ s[4] = Bytes!AddrType[kind] /\ (kind = "name" => s[5] = k)
  <2>1. \A i \in 1..3 : i \in 1..Len(a)
    BY <1>1, <1>3
  <2>2. 4 \in 1..Len(a) /\ (kind = "name" => 5 \in 1..Len(a))
    BY <1>1, <1>3
  <2>3. QED
    BY <1>3, <1>6, <2>1, <2>2
<1>9. Bytes!HostStart(s) = m /\ Bytes!HostSize(s) = k
      /\ Bytes!HeaderSize(s) = size /\ Bytes!Kind(s[4]) = kind
  BY <1>0, <1>8, HeaderRead DEF m, k, size
<1>10. s[m + k + 1] = port[1] /\ s[m + k + 2] = port[2]
  <2>1. Len(a) + Len(host) = m + k
    BY <1>3 DEF k
  <2>2. 1 \in 1..Len(c) /\ 2 \in 1..Len(c)
    BY <1>2, <1>4
  <2>3. QED
    BY <1>4, <1>6, <2>1, <2>2
<1>11. Bytes!Decoded(s) = Bytes!Address(kind, host, p)
  <2>1. Bytes!Decoded(s)
            = Bytes!Address(kind, SubSeq(s, m + 1, m + k), s[m + k + 1] * 256 + s[m + k + 2])
    BY <1>9 DEF Bytes!Decoded
  <2>2. s[m + k + 1] * 256 + s[m + k + 2] = p
    BY <1>5, <1>10
  <2>3. QED
    BY <1>7, <2>1, <2>2
<1>12. Bytes!Drop(s, size) = data
  <2>1. Three(q, port, data)
    BY <1>0, <1>4, <1>5 DEF Three
  <2>2. Bytes!Drop((q \o port) \o data, Len(q) + Len(port)) = data
    BY <2>1, Pieces
  <2>3. Len(q) + Len(port) = size
    BY <1>1, <1>4, <1>5
  <2>4. s = (q \o port) \o data
    BY <1>4
  <2>5. QED
    BY <2>2, <2>3, <2>4
<1>13. QED
  BY <1>6, <1>7, <1>8, <1>9, <1>11, <1>12 DEF k, size

-----------------------------------------------------------------------------
(* The bytes and hosts the parts use.                                        *)

LEMMA TextIs ==
    ASSUME NEW char \in Bytes!Byte, NEW k \in Nat
    PROVE  /\ Bytes!Text(char, k) \in ByteSeq /\ Len(Bytes!Text(char, k)) = k
           /\ \A i \in 1..k : Bytes!Text(char, k)[i] = char
<1>1. Bytes!Text(char, k) \in [1..k -> Bytes!Byte]
  BY DEF Bytes!Text
<1>2. Bytes!Text(char, k) \in UNION {[1..n -> Bytes!Byte] : n \in Nat}
  BY <1>1
<1>3. Bytes!Text(char, k) \in ByteSeq
  BY <1>2, SeqDef DEF ByteSeq
<1>4. DOMAIN Bytes!Text(char, k) = 1..Len(Bytes!Text(char, k)) /\ Len(Bytes!Text(char, k)) \in Nat
  BY <1>3, LenProperties DEF ByteSeq
<1>5. \A m, n \in Nat : 1..m = 1..n => m = n
  <2>1. SUFFICES ASSUME NEW m \in Nat, NEW n \in Nat, 1..m = 1..n, m < n PROVE FALSE
    OBVIOUS
  <2>2. n \in 1..n /\ n \notin 1..m
    BY <2>1
  <2>3. QED
    BY <2>1, <2>2
<1>6. DOMAIN Bytes!Text(char, k) = 1..k
  BY <1>1
<1>7. QED
  BY <1>3, <1>4, <1>5, <1>6 DEF Bytes!Text

LEMMA Digits ==
    /\ 0 \in Bytes!Byte /\ 1 \in Bytes!Byte /\ 2 \in Bytes!Byte /\ 5 \in Bytes!Byte
    /\ 7 \in Bytes!Byte /\ 10 \in Bytes!Byte /\ 32 \in Bytes!Byte /\ 100 \in Bytes!Byte
    /\ 104 \in Bytes!Byte /\ 112 \in Bytes!Byte /\ 114 \in Bytes!Byte /\ 117 \in Bytes!Byte
    /\ 255 \in Bytes!Byte
BY DEF Bytes!Byte

LEMMA HostsFit ==
    /\ Fitted("v4", Bytes!HostBytes("v4")) /\ Fitted("v6", Bytes!HostBytes("v6"))
    /\ Fitted("v4", Bytes!Zero)
    /\ \A k \in Nat : k <= 255 => Fitted("name", Bytes!Text(104, k))
<1>1. Fitted("v4", Bytes!HostBytes("v4")) /\ Fitted("v4", Bytes!Zero)
  BY Digits DEF Fitted, Kinds, ByteSeq, Bytes!HostBytes, Bytes!V4, Bytes!Zero
<1>2. Fitted("v6", Bytes!HostBytes("v6"))
  <2> DEFINE m == Bytes!Text(0, 13)
             a == <<32, 1>>
             b == <<1>>
  <2>1. m \in ByteSeq /\ Len(m) = 13
    <3>1. 0 \in Bytes!Byte /\ 13 \in Nat
      BY Digits
    <3>2. QED
      BY <3>1, TextIs
  <2>2. a \in ByteSeq /\ Len(a) = 2 /\ b \in ByteSeq /\ Len(b) = 1
    BY Digits DEF ByteSeq
  <2> HIDE DEF m, a, b
  <2>3. (a \o m) \o b \in ByteSeq /\ Len((a \o m) \o b) = Len(a) + Len(m) + Len(b)
    <3>1. Three(a, m, b)
      BY <2>1, <2>2 DEF Three
    <3>2. QED
      BY <3>1, Pieces
  <2>4. (a \o m) \o b \in ByteSeq /\ Len((a \o m) \o b) = 16
    BY <2>1, <2>2, <2>3
  <2>5. Bytes!HostBytes("v6") = (a \o m) \o b
    BY DEF Bytes!HostBytes, Bytes!V6, m, a, b
  <2>6. QED
    BY <2>4, <2>5 DEF Fitted, Kinds
<1>3. ASSUME NEW k \in Nat, k <= 255 PROVE Fitted("name", Bytes!Text(104, k))
  <2>1. Bytes!Text(104, k) \in ByteSeq /\ Len(Bytes!Text(104, k)) = k
    BY Digits, TextIs
  <2>2. QED
    BY <1>3, <2>1 DEF Fitted, Kinds
<1>4. QED
  BY <1>1, <1>2, <1>3

-----------------------------------------------------------------------------
(* A datagram of an association.                                             *)

LEMMA PacketBytes ==
    /\ \A s : Packet!Decoded(s) = Bytes!Decoded(s)
    /\ \A s : Packet!HeaderSize(s) = Bytes!HeaderSize(s)
    /\ \A s, n : Packet!Drop(s, n) = Bytes!Drop(s, n)
    /\ \A char, k : Packet!Text(char, k) = Bytes!Text(char, k)
    /\ \A kind : Packet!HostBytes(kind) = Bytes!HostBytes(kind)
    /\ \A kind, host, p : Packet!Address(kind, host, p) = Bytes!Address(kind, host, p)
    /\ Packet!Byte = Bytes!Byte /\ DOMAIN Packet!AddrType = Kinds
    /\ Packet!KnownTypes = Bytes!KnownTypes
<1>1. \A s : Packet!HeaderSize(s) = Bytes!HeaderSize(s)
  BY DEF Packet!HeaderSize, Packet!HostStart, Packet!HostSize,
         Bytes!HeaderSize, Bytes!HostStart, Bytes!HostSize
<1>2. \A s : Packet!Decoded(s) = Bytes!Decoded(s)
  BY DEF Packet!Decoded, Packet!HostStart, Packet!HostSize, Packet!Address, Packet!Kind,
         Bytes!Decoded, Bytes!HostStart, Bytes!HostSize, Bytes!Address, Bytes!Kind
<1>3. \A char, k : Packet!Text(char, k) = Bytes!Text(char, k)
  BY DEF Packet!Text, Bytes!Text
<1>4. \A kind : Packet!HostBytes(kind) = Bytes!HostBytes(kind)
  BY DEF Packet!HostBytes, Packet!V4, Packet!V6, Packet!Text,
         Bytes!HostBytes, Bytes!V4, Bytes!V6, Bytes!Text
<1>5. \A s, n : Packet!Drop(s, n) = Bytes!Drop(s, n)
  BY DEF Packet!Drop, Bytes!Drop
<1>6. Packet!Byte = Bytes!Byte
  BY DEF Packet!Byte, Bytes!Byte
<1>7. DOMAIN Packet!AddrType = Kinds
  BY DEF Packet!AddrType, Kinds
<1>8. \A kind, host, p : Packet!Address(kind, host, p) = Bytes!Address(kind, host, p)
  BY DEF Packet!Address, Bytes!Address
<1>9. Packet!KnownTypes = Bytes!KnownTypes
  BY DEF Packet!KnownTypes, Bytes!KnownTypes
<1>10. QED
  BY <1>1, <1>2, <1>3, <1>4, <1>5, <1>6, <1>7, <1>8, <1>9

LEMMA PacketWritten ==
    ASSUME NEW to, NEW data
    PROVE  Packet!Datagram(to, data) = Message(<<0, 0, 0>>, to.kind, to.bytes, to.port, data)
<1>1. \A kind, host : Packet!Encoded(kind, host) = Bytes!Encoded(kind, host)
  BY DEF Packet!Encoded, Packet!AddrType, Bytes!Encoded, Bytes!AddrType
<1>2. \A p : Packet!Port16(p) = Bytes!Port16(p)
  BY Zenon DEF Packet!Port16, Bytes!Port16
<1>3. QED
  BY <1>1, <1>2, Zenon DEF Packet!Datagram, Message

(* The address a is one that fits its fields. *)
Sendable(a) ==
    /\ Fitted(a.kind, a.bytes) /\ a.port \in PortNumbers
    /\ a = Bytes!Address(a.kind, a.bytes, a.port)

LEMMA AddressFields ==
    ASSUME NEW kind, NEW host, NEW p
    PROVE  /\ Bytes!Address(kind, host, p).kind = kind
           /\ Bytes!Address(kind, host, p).bytes = host
           /\ Bytes!Address(kind, host, p).port = p
BY DEF Bytes!Address

LEMMA PacketValues ==
    /\ PacketPorts \subseteq PortNumbers /\ PayloadLengths \subseteq Nat
    /\ \A k \in PacketHosts : k \in Nat /\ k <= 255
BY PacketAssumption DEF PortNumbers

LEMMA DestinationSendable ==
    ASSUME NEW a \in Packet!Targets
    PROVE  Sendable(a)
<1>1. CASE \E kind \in {"v4", "v6"}, p \in PacketPorts :
               a = Packet!Address(kind, Packet!HostBytes(kind), p)
  <2>1. PICK kind \in {"v4", "v6"}, p \in PacketPorts :
               a = Bytes!Address(kind, Bytes!HostBytes(kind), p)
    BY <1>1, PacketBytes
  <2>2. p \in PortNumbers
    BY PacketValues
  <2>3. Fitted(kind, Bytes!HostBytes(kind))
    BY HostsFit
  <2>4. QED
    BY <2>1, <2>2, <2>3, AddressFields DEF Sendable
<1>2. CASE \E k \in PacketHosts, p \in PacketPorts :
               a = Packet!Address("name", Packet!Text(104, k), p)
  <2>1. PICK k \in PacketHosts, p \in PacketPorts :
               a = Bytes!Address("name", Bytes!Text(104, k), p)
    BY <1>2, PacketBytes
  <2>2. p \in PortNumbers
    BY PacketValues
  <2>3. k \in Nat /\ k <= 255
    BY PacketValues
  <2>4. Fitted("name", Bytes!Text(104, k))
    BY <2>3, HostsFit
  <2>5. QED
    BY <2>1, <2>2, <2>4, AddressFields DEF Sendable
<1>3. QED
  BY <1>1, <1>2 DEF Packet!Targets

LEMMA DatagramRead ==
    ASSUME NEW to, Sendable(to), NEW data \in ByteSeq, NEW s, s = Packet!Datagram(to, data)
    PROVE  /\ s \in ByteSeq /\ Len(s) = Size(to.kind, to.bytes) + Len(data)
           /\ \A i \in 1..3 : s[i] = 0
           /\ s[4] = Bytes!AddrType[to.kind] /\ (to.kind = "name" => s[5] = Len(to.bytes))
           /\ Packet!HeaderSize(s) = Size(to.kind, to.bytes)
           /\ Packet!Decoded(s) = to
           /\ Packet!Drop(s, Size(to.kind, to.bytes)) = data
<1> DEFINE h == <<0, 0, 0>>
           size == Size(to.kind, to.bytes)
<1>1. Lead(h) /\ \A i \in 1..3 : h[i] = 0
  BY Digits DEF ByteSeq, Lead
<1>2. s = Message(h, to.kind, to.bytes, to.port, data)
  BY PacketWritten
<1> HIDE DEF h
<1>3. Fitted(to.kind, to.bytes) /\ to.port \in PortNumbers
      /\ to = Bytes!Address(to.kind, to.bytes, to.port)
  BY DEF Sendable
<1>4. Readable(h, to.kind, to.bytes, to.port, data)
  BY <1>1, <1>3 DEF Readable
<1>6. /\ s \in ByteSeq /\ Len(s) = size + Len(data)
      /\ \A i \in 1..3 : s[i] = h[i]
      /\ s[4] = Bytes!AddrType[to.kind] /\ (to.kind = "name" => s[5] = Len(to.bytes))
      /\ Bytes!HeaderSize(s) = size
      /\ Bytes!Decoded(s) = Bytes!Address(to.kind, to.bytes, to.port)
      /\ Bytes!Drop(s, size) = data
  BY <1>2, <1>4, MessageRead
<1>5. QED
  BY <1>1, <1>3, <1>6, PacketBytes

(* A datagram cut short is read as the whole one, or found too short. *)
CutShort(to, data, n) == SubSeq(Packet!Datagram(to, data), 1, n)

LEMMA CutRead ==
    ASSUME NEW to, Sendable(to), NEW data \in ByteSeq, NEW n \in Nat, n >= 10,
           Holds(Packet!Datagram(to, data), n)
    PROVE  /\ CutShort(to, data, n) \in ByteSeq /\ Len(CutShort(to, data, n)) = n
           /\ Packet!HeaderSize(CutShort(to, data, n)) = Size(to.kind, to.bytes)
           /\ Size(to.kind, to.bytes) <= n =>
                /\ Packet!Decoded(CutShort(to, data, n)) = to
                /\ Packet!Drop(CutShort(to, data, n), Size(to.kind, to.bytes))
                        = SubSeq(data, 1, n - Size(to.kind, to.bytes))
                /\ Packet!Drop(CutShort(to, data, n), Size(to.kind, to.bytes)) \in ByteSeq
                /\ Len(Packet!Drop(CutShort(to, data, n), Size(to.kind, to.bytes)))
                        = n - Size(to.kind, to.bytes)
<1> DEFINE full == Packet!Datagram(to, data)
           s == CutShort(to, data, n)
           kind == to.kind
           host == to.bytes
           m == Start(kind)
           l == Len(host)
           size == Size(kind, host)
<1>1. /\ Fitted(kind, host) /\ l \in Nat /\ m \in Nat /\ size \in Nat
      /\ size = m + l + 2
  BY Numbers DEF Sendable
<1>2. /\ full \in ByteSeq /\ Len(full) = size + Len(data)
      /\ full[4] = Bytes!AddrType[kind] /\ (kind = "name" => full[5] = l)
      /\ Packet!HeaderSize(full) = size /\ Packet!Decoded(full) = to
      /\ Packet!Drop(full, size) = data
  BY DatagramRead
<1>3. Len(data) \in Nat /\ n <= Len(full) /\ Holds(full, n)
  BY BytesAre DEF Holds
<1>4. s = SubSeq(full, 1, n)
  BY DEF CutShort
<1> HIDE DEF full, s, kind, host, size, m, l
<1>5. s \in ByteSeq /\ Len(s) = n /\ \A i \in 1..n : s[i] = full[i]
  BY <1>3, <1>4, Beginning
<1>6. s[4] = Bytes!AddrType[kind] /\ (kind = "name" => s[5] = l)
  BY <1>2, <1>5
<1>7. Bytes!HostStart(s) = m /\ Bytes!HostSize(s) = l
      /\ Bytes!HeaderSize(s) = size /\ Bytes!Kind(s[4]) = kind
  BY <1>1, <1>6, HeaderRead DEF size, l, m
<1>8. Bytes!HostStart(full) = m /\ Bytes!HostSize(full) = l /\ Bytes!Kind(full[4]) = kind
  <2>1. full[4] = Bytes!AddrType[kind] /\ (kind = "name" => full[5] = l)
    BY <1>2
  <2>2. QED
    BY <1>1, <2>1, HeaderRead DEF l, m
<1>9. ASSUME size <= n
      PROVE  /\ Packet!Decoded(s) = to
             /\ Packet!Drop(s, size) = SubSeq(data, 1, n - size)
             /\ Packet!Drop(s, size) \in ByteSeq /\ Len(Packet!Drop(s, size)) = n - size
  <2>1. SubSeq(s, m + 1, m + l) = SubSeq(full, m + 1, m + l)
    <3>1. Within(s, m, l)
      BY <1>1, <1>5, <1>9 DEF Within
    <3>2. m \in Nat /\ l \in Nat /\ Holds(full, n)
      BY <1>1, <1>3
    <3>3. SamePiece(s, full, m, l)
      BY <1>3, <1>4, <3>1, <3>2, PieceOfBeginning
    <3>4. QED
      BY <3>3 DEF SamePiece
  <2>2. s[m + l + 1] = full[m + l + 1] /\ s[m + l + 2] = full[m + l + 2]
    <3>1. m + l + 1 \in 1..n /\ m + l + 2 \in 1..n
      BY <1>1, <1>9
    <3>2. QED
      BY <1>5, <3>1
  <2>3. /\ Bytes!Decoded(s)
            = Bytes!Address(kind, SubSeq(s, m + 1, m + l), s[m + l + 1] * 256 + s[m + l + 2])
        /\ Bytes!Decoded(full)
            = Bytes!Address(kind, SubSeq(full, m + 1, m + l), full[m + l + 1] * 256 + full[m + l + 2])
    BY <1>7, <1>8 DEF Bytes!Decoded
  <2>4. Bytes!Decoded(s) = Bytes!Decoded(full)
    BY <2>1, <2>2, <2>3
  <2> DEFINE k == n - size
             t == Bytes!Drop(s, size)
             u == SubSeq(data, 1, k)
  <2>5. k \in Nat /\ size + k = n /\ k <= Len(data) /\ Len(s) - size = k
    BY <1>1, <1>2, <1>3, <1>5, <1>9
  <2> HIDE DEF k
  <2>6. t \in ByteSeq /\ Len(t) = k /\ \A i \in 1..k : t[i] = s[size + i]
    <3>1. Holds(s, size)
      BY <1>5, <1>9 DEF Holds
    <3>2. /\ t \in ByteSeq /\ Len(t) = Len(s) - size
          /\ \A i \in 1..(Len(s) - size) : t[i] = s[size + i]
      BY <1>1, <3>1, Rest
    <3>3. QED
      BY <2>5, <3>2
  <2>7. u \in ByteSeq /\ Len(u) = k /\ \A i \in 1..k : u[i] = data[i]
    <3>1. Holds(data, k)
      BY <2>5 DEF Holds
    <3>2. QED
      BY <2>5, <3>1, Beginning
  <2>8. \A i \in 1..Len(data) : data[i] = full[size + i]
    <3>1. Holds(full, size) /\ Len(full) - size = Len(data)
      BY <1>1, <1>2, <1>3 DEF Holds
    <3>2. \A i \in 1..(Len(full) - size) : Bytes!Drop(full, size)[i] = full[size + i]
      BY <1>1, <3>1, Rest
    <3>3. Bytes!Drop(full, size) = data
      BY <1>2, PacketBytes
    <3>4. QED
      BY <3>1, <3>2, <3>3
  <2> HIDE DEF t, u
  <2>9. \A i \in 1..k : size + i \in 1..n /\ i \in 1..Len(data)
    BY <1>1, <1>3, <2>5
  <2>10. \A i \in 1..k : t[i] = u[i]
    BY <1>5, <2>6, <2>7, <2>8, <2>9
  <2>11. t = u
    BY <2>6, <2>7, <2>10, Equal
  <2>12. Packet!Decoded(s) = to /\ Packet!Drop(s, size) = t
    BY <1>2, <2>4, PacketBytes DEF t
  <2>13. QED
    BY <2>6, <2>11, <2>12 DEF k, u
<1>10. Packet!HeaderSize(s) = size
  BY <1>7, PacketBytes
<1>11. QED
  BY <1>5, <1>9, <1>10 DEF s, size, kind, host

(* What the client means to send. *)
Meant == Sendable(destination) /\ destination \in Packet!Targets /\ payload \in ByteSeq

(* What arrives of it: a beginning, or a fragment, or another type of address. *)
Begins == \E n \in Nat : n <= Len(Packet!Full) /\ packet = SubSeq(Packet!Full, 1, n)
Altered == packet \in {Packet!Fragment, Packet!OfUnknownType}
Arrives == Meant /\ (Begins \/ Altered)

(* Past the parser, what was parsed is what the client meant; past the
   resolver, the address is one that can be written. *)
Progress ==
    /\ pc \in {"parse", "resolve", "exchange", "build", "sent", "dropped", "out_of_range"}
    /\ forwarded \in ByteSeq /\ answer \in ByteSeq /\ reply \in ByteSeq
    /\ parsed \in {NoAddr, destination}
    /\ pc \in {"parse", "out_of_range"} => parsed = NoAddr
    /\ pc \in {"resolve", "exchange", "build", "sent"} => parsed = destination
    /\ resolved # NoAddr => Sendable(resolved) /\ resolved.port = destination.port
    /\ pc \in {"exchange", "build", "sent"} => Sendable(resolved) /\ resolved.port = destination.port

PacketInv == part = "datagram" => Arrives /\ Progress /\ Packet!DatagramsKept

LEMMA FullShape ==
    ASSUME Meant
    PROVE  /\ Packet!Full \in ByteSeq /\ Len(Packet!Full) \in Nat /\ Len(payload) \in Nat
           /\ Size(destination.kind, destination.bytes) \in Nat
           /\ Len(Packet!Full) = Size(destination.kind, destination.bytes) + Len(payload)
           /\ Len(Packet!Full) >= 4
           /\ \A i \in 1..3 : Packet!Full[i] = 0
           /\ Packet!Full[4] \in Bytes!KnownTypes
<1> DEFINE size == Size(destination.kind, destination.bytes)
<1>1. Sendable(destination) /\ payload \in ByteSeq
  BY DEF Meant
<1>2. /\ Packet!Full \in ByteSeq /\ Len(Packet!Full) = size + Len(payload)
      /\ \A i \in 1..3 : Packet!Full[i] = 0
      /\ Packet!Full[4] = Bytes!AddrType[destination.kind]
  BY <1>1, DatagramRead DEF Packet!Full
<1>3. size \in Nat /\ size >= 4 /\ destination.kind \in Kinds
  BY <1>1, Numbers, Hosts DEF Sendable
<1>4. Packet!Full[4] \in Bytes!KnownTypes
  BY <1>2, <1>3, TypesKnown
<1>5. Len(payload) \in Nat
  BY <1>1, BytesAre
<1> HIDE DEF size
<1>6. Len(Packet!Full) >= 4 /\ Len(Packet!Full) \in Nat
  BY <1>2, <1>3, <1>5
<1>7. QED
  BY <1>2, <1>3, <1>4, <1>5, <1>6 DEF size

(* A beginning of ten bytes or more has the first bytes of the whole. *)
LEMMA BeginningShape ==
    ASSUME Meant, Begins
    PROVE  /\ packet \in ByteSeq /\ Len(packet) \in Nat /\ Len(packet) <= Len(Packet!Full)
           /\ packet = SubSeq(Packet!Full, 1, Len(packet))
           /\ ~Packet!TooShort => ~Packet!Malformed
<1>1. PICK n \in Nat : n <= Len(Packet!Full) /\ packet = SubSeq(Packet!Full, 1, n)
  BY DEF Begins
<1>2. /\ Packet!Full \in ByteSeq /\ \A i \in 1..3 : Packet!Full[i] = 0
      /\ Packet!Full[4] \in Bytes!KnownTypes
  BY FullShape
<1>3. /\ packet \in ByteSeq /\ Len(packet) = n
      /\ \A i \in 1..n : packet[i] = Packet!Full[i]
  <2>1. Holds(Packet!Full, n)
    BY <1>1, <1>2 DEF Holds
  <2>2. QED
    BY <1>1, <2>1, Beginning
<1>4. ~Packet!TooShort => ~Packet!Malformed
  <2>1. SUFFICES ASSUME n >= 10 PROVE ~Packet!Malformed
    BY <1>3 DEF Packet!TooShort
  <2>2. 4 \in 1..n /\ \A i \in 1..3 : i \in 1..n
    BY <2>1
  <2>3. packet[4] = Packet!Full[4] /\ \A i \in 1..3 : packet[i] = 0
    BY <1>2, <1>3, <2>2
  <2>4. QED
    BY <1>2, <2>3, PacketBytes DEF Packet!Malformed
<1>5. QED
  BY <1>1, <1>3, <1>4

(* What was altered is as long as the whole, and found malformed. *)
LEMMA AlteredShape ==
    ASSUME Meant, Altered
    PROVE  packet \in ByteSeq /\ Len(packet) = Len(Packet!Full) /\ Packet!Malformed
<1> DEFINE s == Packet!Full
<1>1. s \in Seq(Bytes!Byte) /\ Len(s) \in Nat /\ Len(s) >= 4
  BY FullShape DEF ByteSeq
<1>2. PICK i \in 3..4, b \in 1..2 : packet = [s EXCEPT ![i] = b] /\ (i = 3 \/ b = 2)
  BY DEF Altered, Packet!Fragment, Packet!OfUnknownType
<1> HIDE DEF s
<1>3. i \in 1..Len(s) /\ b \in Bytes!Byte
  BY <1>1 DEF Bytes!Byte
<1>4. packet \in Seq(Bytes!Byte) /\ Len(packet) = Len(s) /\ packet[i] = b
  BY <1>1, <1>2, <1>3, ExceptSeq
<1>5. CASE i = 3
  <2>1. packet[3] # 0 /\ 3 \in 1..3
    BY <1>4, <1>5
  <2>2. QED
    BY <1>4, <2>1 DEF Packet!Malformed, s, ByteSeq
<1>6. CASE i = 4 /\ b = 2
  <2>1. packet[4] \notin Packet!KnownTypes
    BY <1>4, <1>6 DEF Packet!KnownTypes
  <2>2. QED
    BY <1>4, <2>1 DEF Packet!Malformed, s, ByteSeq
<1>7. QED
  BY <1>2, <1>5, <1>6

LEMMA PacketShape ==
    ASSUME Arrives
    PROVE  /\ packet \in ByteSeq /\ Packet!Full \in ByteSeq
           /\ Len(packet) \in Nat /\ Len(Packet!Full) \in Nat
           /\ Len(packet) <= Len(Packet!Full)
           /\ Len(payload) \in Nat /\ Size(destination.kind, destination.bytes) \in Nat
           /\ Len(Packet!Full) = Size(destination.kind, destination.bytes) + Len(payload)
           /\ ~Packet!Malformed =>
                packet = SubSeq(Packet!Full, 1, Len(packet)) /\ ~Altered
<1>1. Meant /\ (Begins \/ Altered)
  BY DEF Arrives
<1>2. /\ Packet!Full \in ByteSeq /\ Len(Packet!Full) \in Nat /\ Len(payload) \in Nat
      /\ Size(destination.kind, destination.bytes) \in Nat
      /\ Len(Packet!Full) = Size(destination.kind, destination.bytes) + Len(payload)
  BY <1>1, FullShape
<1>3. CASE Begins
  <2>1. /\ packet \in ByteSeq /\ Len(packet) \in Nat /\ Len(packet) <= Len(Packet!Full)
        /\ packet = SubSeq(Packet!Full, 1, Len(packet))
    BY <1>1, <1>3, BeginningShape
  <2>2. ~Packet!Malformed => ~Altered
    BY <1>1, AlteredShape
  <2>3. QED
    BY <1>2, <2>1, <2>2
<1>4. CASE Altered
  <2>1. packet \in ByteSeq /\ Len(packet) = Len(Packet!Full) /\ Packet!Malformed
    BY <1>1, <1>4, AlteredShape
  <2>2. Len(packet) <= Len(Packet!Full) /\ Len(packet) \in Nat
    BY <1>2, <2>1
  <2>3. QED
    BY <1>2, <2>1, <2>2
<1>5. QED
  BY <1>1, <1>3, <1>4

LEMMA PacketRead ==
    ASSUME Arrives, ~Packet!TooShort, ~Packet!Malformed
    PROVE  /\ Packet!HeaderSize(packet) = Size(destination.kind, destination.bytes)
           /\ ~Packet!OutOfRange =>
                /\ Packet!Decoded(packet) = destination
                /\ Packet!Payload \in ByteSeq
                /\ Packet!Payload = SubSeq(payload, 1, Len(Packet!Payload))
                /\ Len(payload) - Len(Packet!Payload) = Len(Packet!Full) - Len(packet)
<1> DEFINE n == Len(packet)
           size == Size(destination.kind, destination.bytes)
<1>1. /\ Packet!Full \in ByteSeq /\ n \in Nat /\ n <= Len(Packet!Full) /\ packet = SubSeq(Packet!Full, 1, n)
      /\ Len(payload) \in Nat /\ size \in Nat /\ Len(Packet!Full) = size + Len(payload)
  BY PacketShape
<1>2. n >= 10
  BY <1>1 DEF Packet!TooShort
<1>3. Sendable(destination) /\ payload \in ByteSeq
  BY DEF Arrives, Meant
<1>0. packet = CutShort(destination, payload, n) /\ Holds(Packet!Datagram(destination, payload), n)
  BY <1>1 DEF Packet!Full, CutShort, Holds
<1> HIDE DEF n
<1>4. /\ Packet!HeaderSize(packet) = size
      /\ size <= n =>
            /\ Packet!Decoded(packet) = destination
            /\ Packet!Drop(packet, size) = SubSeq(payload, 1, n - size)
            /\ Packet!Drop(packet, size) \in ByteSeq
            /\ Len(Packet!Drop(packet, size)) = n - size
  <2> DEFINE s == CutShort(destination, payload, n)
  <2>1. n \in Nat
    BY <1>1
  <2>2. /\ Packet!HeaderSize(s) = size
        /\ size <= n =>
              /\ Packet!Decoded(s) = destination
              /\ Packet!Drop(s, size) = SubSeq(payload, 1, n - size)
              /\ Packet!Drop(s, size) \in ByteSeq
              /\ Len(Packet!Drop(s, size)) = n - size
    BY <1>0, <1>2, <1>3, <2>1, CutRead
  <2>3. QED
    BY <1>0, <2>2
<1> HIDE DEF size
<1>5. ~Packet!OutOfRange => size <= n
  <2>1. ~Packet!OutOfRange => ~(size > n)
    BY <1>4 DEF Packet!OutOfRange, n
  <2>2. ~(size > n) => size <= n
    BY <1>1
  <2>3. QED
    BY <2>1, <2>2
<1>6. Packet!Payload = Packet!Drop(packet, size)
  BY <1>4 DEF Packet!Payload
<1>7. \A k \in Int : k = n - size => Len(payload) - k = Len(Packet!Full) - n
  BY <1>1
<1>8. QED
  BY <1>1, <1>4, <1>5, <1>6, <1>7 DEF n, size

LEMMA PacketInitially == Init => PacketInv
<1> SUFFICES ASSUME Init, part = "datagram" PROVE Arrives /\ Progress /\ Packet!DatagramsKept
  BY DEF PacketInv
<1>1. Packet!Init
  BY PartsInit
<1>2. payload \in ByteSeq
  <2>1. PICK k \in PayloadLengths : payload = Bytes!Text(100, k)
    BY <1>1, PacketBytes DEF Packet!Init
  <2>2. k \in Nat
    BY PacketValues
  <2>3. 100 \in Bytes!Byte
    BY Digits
  <2>4. Bytes!Text(100, k) \in ByteSeq
    BY <2>2, <2>3, TextIs
  <2>5. QED
    BY <2>1, <2>4
<1>3. Sendable(destination) /\ destination \in Packet!Targets
  BY <1>1, DestinationSendable DEF Packet!Init
<1>4. Arrives
  <2>1. Packet!Full \in ByteSeq
    BY <1>2, <1>3, DatagramRead DEF Packet!Full
  <2>2. CASE \E n \in 0..Len(Packet!Full) : packet = SubSeq(Packet!Full, 1, n)
    <3>1. PICK n \in 0..Len(Packet!Full) : packet = SubSeq(Packet!Full, 1, n)
      BY <2>2
    <3>2. n \in Nat /\ n <= Len(Packet!Full)
      BY <2>1, BytesAre
    <3>3. QED
      BY <1>2, <1>3, <3>1, <3>2 DEF Arrives, Meant, Begins
  <2>3. CASE Altered
    BY <1>2, <1>3, <2>3 DEF Arrives, Meant
  <2>4. QED
    BY <1>1, <2>2, <2>3 DEF Packet!Init, Altered
<1>5. <<>> \in ByteSeq
  BY EmptySeq DEF ByteSeq
<1>6. /\ pc = "parse" /\ parsed = NoAddr /\ resolved = NoAddr
      /\ forwarded = <<>> /\ answer = <<>> /\ reply = <<>>
  BY <1>1 DEF Packet!Init
<1>7. Progress
  BY <1>5, <1>6 DEF Progress
<1>8. Packet!DatagramsKept
  BY <1>6 DEF Packet!DatagramsKept, Packet!OutOfRangeOnlyIfCut, Packet!ForwardsWhatWasSent,
              Packet!WholeDatagramParsed, Packet!ReplyReadable
<1>9. QED
  BY <1>4, <1>7, <1>8

(* parseUDPPacket: it finds the datagram too short, or reads beyond the end of
   one that was cut, or forwards what was sent. *)
LEMMA ParseKeeps ==
    ASSUME Arrives, Progress, Packet!parseUDPPacket
    PROVE  Progress' /\ Packet!DatagramsKept'
<1> DEFINE size == Size(destination.kind, destination.bytes)
<1>1. /\ Len(packet) \in Nat /\ Len(Packet!Full) \in Nat /\ Len(payload) \in Nat /\ size \in Nat
      /\ Len(Packet!Full) = size + Len(payload)
  BY PacketShape
<1>2. /\ pc = "parse" /\ parsed = NoAddr
      /\ UNCHANGED <<destination, payload, packet, resolved, answer, reply>>
      /\ Packet!Full' = Packet!Full /\ (Altered' <=> Altered)
  BY DEF Progress, Packet!parseUDPPacket, Packet!sender, Packet!Full, Packet!Datagram,
         Altered, Packet!Fragment, Packet!OfUnknownType
<1>3. Sendable(destination) /\ (Begins \/ Altered) /\ Meant
  BY DEF Arrives, Meant
<1> HIDE DEF size
<1>4. CASE Packet!TooShort /\ pc' = "dropped" /\ UNCHANGED <<parsed, forwarded>>
  <2>1. Progress'
    BY <1>2, <1>4 DEF Progress, Sendable
  <2>2. packet = Packet!Full => destination.kind = "name" /\ Len(destination.bytes) + Len(payload) < 3
    <3>1. SUFFICES ASSUME packet = Packet!Full
                   PROVE  destination.kind = "name" /\ Len(destination.bytes) + Len(payload) < 3
      OBVIOUS
    <3>2. size + Len(payload) < 10
      BY <1>1, <1>4, <3>1 DEF Packet!TooShort
    <3>3. Len(destination.bytes) \in Nat /\ size = Start(destination.kind) + Len(destination.bytes) + 2
      BY <1>3, Numbers DEF Sendable, size
    <3>4. destination.kind # "name" => Len(destination.bytes) \in {4, 16}
      BY <1>3 DEF Sendable, Fitted, Kinds
    <3>5. destination.kind = "name"
      <4>1. SUFFICES ASSUME destination.kind # "name" PROVE FALSE
        OBVIOUS
      <4>2. size = Len(destination.bytes) + 6
        BY <3>3, <4>1 DEF Start
      <4>3. Len(destination.bytes) = 4 \/ Len(destination.bytes) = 16
        BY <3>4, <4>1
      <4>4. CASE Len(destination.bytes) = 4
        <5>1. size = 10
          BY <4>2, <4>4
        <5>2. QED
          BY <1>1, <3>2, <5>1
      <4>5. CASE Len(destination.bytes) = 16
        <5>1. size = 22
          BY <4>2, <4>5
        <5>2. QED
          BY <1>1, <3>2, <5>1
      <4>6. QED
        BY <4>3, <4>4, <4>5
    <3>6. QED
      BY <1>1, <3>2, <3>3, <3>5 DEF Start
  <2>3. Packet!DatagramsKept'
    BY <1>2, <1>4, <2>2 DEF Packet!DatagramsKept, Packet!OutOfRangeOnlyIfCut,
            Packet!ForwardsWhatWasSent, Packet!WholeDatagramParsed, Packet!ReplyReadable
  <2>4. QED
    BY <2>1, <2>3
<1>8. CASE ~Packet!TooShort /\ Packet!Malformed /\ pc' = "dropped" /\ UNCHANGED <<parsed, forwarded>>
  <2>1. Progress'
    BY <1>2, <1>8 DEF Progress, Sendable
  <2>2. packet # Packet!Full
    <3>1. SUFFICES ASSUME packet = Packet!Full PROVE FALSE
      OBVIOUS
    <3>2. packet = SubSeq(Packet!Full, 1, Len(Packet!Full)) /\ Len(Packet!Full) <= Len(Packet!Full)
      <4>1. Packet!Full \in Seq(Bytes!Byte)
        BY <1>3, FullShape DEF ByteSeq
      <4>2. QED
        BY <1>1, <3>1, <4>1, SubSeqFull
    <3>3. Begins
      BY <1>1, <3>2 DEF Begins
    <3>4. QED
      BY <1>3, <1>8, <3>3, BeginningShape
  <2>3. Packet!DatagramsKept'
    BY <1>2, <1>8, <2>2 DEF Packet!DatagramsKept, Packet!OutOfRangeOnlyIfCut,
            Packet!ForwardsWhatWasSent, Packet!WholeDatagramParsed, Packet!ReplyReadable
  <2>4. QED
    BY <2>1, <2>3
<1>5. CASE ~Packet!TooShort /\ ~Packet!Malformed /\ Packet!OutOfRange /\ pc' = "out_of_range"
           /\ UNCHANGED <<parsed, forwarded>>
  <2>1. Progress'
    BY <1>2, <1>5 DEF Progress, Sendable
  <2>2. Len(packet) < Len(Packet!Full) - Len(payload)
    <3>1. Packet!HeaderSize(packet) = size
      BY <1>5, PacketRead DEF size
    <3>2. Len(packet) < size
      BY <1>1, <1>5, <3>1 DEF Packet!OutOfRange
    <3>3. QED
      BY <1>1, <3>2
  <2>3. Packet!DatagramsKept'
    BY <1>2, <1>5, <2>2 DEF Packet!DatagramsKept, Packet!OutOfRangeOnlyIfCut,
            Packet!ForwardsWhatWasSent, Packet!WholeDatagramParsed, Packet!ReplyReadable
  <2>4. QED
    BY <2>1, <2>3
<1>6. CASE ~Packet!TooShort /\ ~Packet!Malformed /\ ~Packet!OutOfRange
           /\ parsed' = Packet!Decoded(packet)
           /\ forwarded' = Packet!Payload /\ pc' = "resolve"
  <2>1. /\ parsed' = destination /\ forwarded' \in ByteSeq
        /\ forwarded' = SubSeq(payload, 1, Len(forwarded'))
        /\ Len(payload) - Len(forwarded') = Len(Packet!Full) - Len(packet)
    BY <1>6, PacketRead
  <2>2. Progress'
    BY <1>2, <1>6, <2>1 DEF Progress, Sendable
  <2>5. packet' \notin {Packet!Fragment', Packet!OfUnknownType'}
    BY <1>2, <1>6, PacketShape DEF Altered
  <2>3. Packet!DatagramsKept'
    BY <1>2, <1>6, <2>1, <2>5 DEF Packet!DatagramsKept, Packet!OutOfRangeOnlyIfCut,
            Packet!ForwardsWhatWasSent, Packet!WholeDatagramParsed, Packet!ReplyReadable
  <2>4. QED
    BY <2>2, <2>3
<1>7. QED
  BY <1>4, <1>5, <1>6, <1>8 DEF Packet!parseUDPPacket

(* The other steps carry the address that was parsed to the reply. *)
LEMMA AnswerKeeps ==
    ASSUME Arrives, Progress, Packet!DatagramsKept,
           Packet!Resolve \/ Packet!Exchange \/ Packet!buildUDPReply
    PROVE  Progress' /\ Packet!DatagramsKept'
<1>1. /\ UNCHANGED <<destination, payload, packet, parsed, forwarded>>
      /\ Packet!Full' = Packet!Full
      /\ Packet!Fragment' = Packet!Fragment /\ Packet!OfUnknownType' = Packet!OfUnknownType
  BY DEF Packet!Resolve, Packet!Exchange, Packet!buildUDPReply, Packet!sender, Packet!Full,
         Packet!Datagram, Packet!Fragment, Packet!OfUnknownType
<1>2. Sendable(destination) /\ destination # NoAddr
  BY NoAddrAssumption DEF Arrives, Meant
<1>3. parsed = destination /\ pc \in {"resolve", "exchange", "build"}
  BY DEF Progress, Packet!Resolve, Packet!Exchange, Packet!buildUDPReply
<1>4. /\ pc' # "sent" /\ pc' # "out_of_range" => Packet!DatagramsKept'
      /\ pc' = "sent" /\ Packet!ReplyReadable' => Packet!DatagramsKept'
  BY <1>1, <1>2, <1>3 DEF Packet!DatagramsKept, Packet!OutOfRangeOnlyIfCut,
        Packet!ForwardsWhatWasSent, Packet!WholeDatagramParsed, Packet!ReplyReadable
<1>5. CASE Packet!Resolve
  <2>1. CASE \E kind \in IF parsed.kind = "name" THEN {"v4", "v6"} ELSE {parsed.kind} :
                 /\ resolved' = Packet!Address(kind, Packet!HostBytes(kind), parsed.port)
                 /\ pc' = "exchange"
    <3>1. PICK kind \in {"v4", "v6"} :
                 /\ resolved' = Bytes!Address(kind, Bytes!HostBytes(kind), parsed.port)
                 /\ pc' = "exchange"
      BY <1>2, <1>3, <2>1, PacketBytes DEF Sendable, Fitted, Kinds
    <3>2. Fitted(kind, Bytes!HostBytes(kind)) /\ parsed.port \in PortNumbers
      BY <1>2, <1>3, HostsFit DEF Sendable
    <3>3. Sendable(resolved') /\ resolved'.port = destination.port
      BY <1>3, <3>1, <3>2, AddressFields DEF Sendable
    <3>4. UNCHANGED <<answer, reply>>
      BY <1>5 DEF Packet!Resolve
    <3>5. Progress'
      BY <1>1, <1>3, <3>1, <3>3, <3>4 DEF Progress
    <3>6. QED
      BY <1>4, <3>1, <3>5
  <2>2. CASE parsed.kind = "name" /\ pc' = "dropped" /\ UNCHANGED resolved
    <3>1. UNCHANGED <<answer, reply, resolved>> /\ pc' = "dropped"
      BY <1>5, <2>2 DEF Packet!Resolve
    <3>2. Progress'
      BY <1>1, <1>3, <3>1 DEF Progress
    <3>3. QED
      BY <1>4, <3>1, <3>2
  <2>3. QED
    BY <1>5, <2>1, <2>2 DEF Packet!Resolve
<1>6. CASE Packet!Exchange
  <2>1. UNCHANGED <<resolved, reply>> /\ pc = "exchange" /\ pc' \in {"build", "dropped"}
    BY <1>6 DEF Packet!Exchange
  <2>2. answer' \in ByteSeq
    <3>1. CASE \E k \in PayloadLengths : answer' = Bytes!Text(114, k)
      <4>1. PICK k \in PayloadLengths : answer' = Bytes!Text(114, k)
        BY <3>1
      <4>2. k \in Nat
        BY PacketValues
      <4>3. QED
        BY <4>1, <4>2, Digits, TextIs
    <3>2. CASE UNCHANGED answer
      BY <3>2 DEF Progress
    <3>3. QED
      BY <1>6, <3>1, <3>2, PacketBytes DEF Packet!Exchange
  <2>3. Progress'
    BY <1>1, <1>3, <2>1, <2>2 DEF Progress
  <2>4. QED
    BY <1>4, <2>1, <2>3
<1>7. CASE Packet!buildUDPReply
  <2>1. UNCHANGED <<resolved, answer>> /\ pc = "build" /\ answer \in ByteSeq
    BY <1>7 DEF Packet!buildUDPReply, Progress
  <2>2. Sendable(resolved) /\ resolved.port = destination.port
    BY <2>1 DEF Progress
  <2>3. CASE resolved.kind = "v4"
    <3>1. reply' = Packet!Datagram(resolved, answer) /\ pc' = "sent"
      BY <1>7, <2>3 DEF Packet!buildUDPReply
    <3>2. /\ reply' \in ByteSeq /\ Packet!Decoded(reply') = resolved
          /\ Packet!Drop(reply', Packet!HeaderSize(reply')) = answer
      BY <2>1, <2>2, <3>1, DatagramRead
    <3>3. Packet!ReplyReadable'
      BY <1>1, <2>1, <2>2, <3>2 DEF Packet!ReplyReadable
    <3>4. Progress'
      BY <1>1, <1>3, <2>1, <2>2, <3>1, <3>2 DEF Progress
    <3>5. QED
      BY <1>4, <3>1, <3>3, <3>4
  <2>4. CASE resolved.kind # "v4"
    <3>1. UNCHANGED reply /\ pc' = "dropped"
      BY <1>7, <2>4 DEF Packet!buildUDPReply
    <3>2. Progress'
      BY <1>1, <1>3, <2>1, <3>1 DEF Progress
    <3>3. QED
      BY <1>4, <3>1, <3>2
  <2>5. QED
    BY <2>3, <2>4
<1>8. QED
  BY <1>5, <1>6, <1>7

LEMMA PacketKept == PacketInv /\ [Next]_vars => PacketInv'
<1> SUFFICES ASSUME PacketInv, [Next]_vars, part' = "datagram"
             PROVE  Arrives' /\ Progress' /\ Packet!DatagramsKept'
  BY DEF PacketInv
<1>1. part = "datagram" /\ [Packet!Next]_(Packet!vars)
  BY PartsStep
<1>2. Arrives /\ Progress /\ Packet!DatagramsKept
  BY <1>1 DEF PacketInv
<1>3. UNCHANGED <<destination, payload, packet>>
  BY <1>1 DEF Packet!Next, Packet!vars, Packet!sender, Packet!parseUDPPacket, Packet!Resolve,
              Packet!Exchange, Packet!buildUDPReply
<1>4. Arrives'
  BY <1>2, <1>3 DEF Arrives, Meant, Begins, Altered, Sendable, Packet!Full, Packet!Datagram,
                    Packet!Fragment, Packet!OfUnknownType
<1>5. CASE Packet!parseUDPPacket
  BY <1>2, <1>4, <1>5, ParseKeeps
<1>6. CASE Packet!Resolve \/ Packet!Exchange \/ Packet!buildUDPReply
  BY <1>2, <1>4, <1>6, AnswerKeeps
<1>7. CASE UNCHANGED Packet!vars
  <2>1. UNCHANGED <<destination, payload, packet, pc, parsed, forwarded, resolved, answer, reply>>
    BY <1>7 DEF Packet!vars, Packet!sender
  <2>2. Progress'
    BY <1>2, <2>1 DEF Progress, Sendable
  <2>3. Packet!DatagramsKept'
    BY <1>2, <2>1 DEF Packet!DatagramsKept, Packet!OutOfRangeOnlyIfCut, Packet!ForwardsWhatWasSent,
                      Packet!WholeDatagramParsed, Packet!ReplyReadable, Packet!Full, Packet!Datagram,
                      Packet!Fragment, Packet!OfUnknownType
  <2>4. QED
    BY <1>4, <2>2, <2>3
<1>8. QED
  BY <1>1, <1>5, <1>6, <1>7 DEF Packet!Next

(* In every reachable state, parser, payload and reply agree with the client:
   parseUDPPacket, handleUDPPacket and buildUDPReply. *)
THEOREM DatagramsKeptCorrect == Spec => []DatagramsKept
<1>1. PacketInv => DatagramsKept
  BY DEF PacketInv, DatagramsKept
<1>2. QED
  BY <1>1, Steps, PacketInitially, PacketKept, PTL

-----------------------------------------------------------------------------
(* A session: the messages of the two ends.                                  *)

LEMMA SessionBytes ==
    /\ \A s : Session!Decoded(s) = Bytes!Decoded(s)
    /\ \A s : Session!HeaderSize(s) = Bytes!HeaderSize(s)
    /\ \A s, n : Session!Drop(s, n) = Bytes!Drop(s, n)
    /\ \A char, k : Session!Text(char, k) = Bytes!Text(char, k)
    /\ \A kind : Session!HostBytes(kind) = Bytes!HostBytes(kind)
    /\ \A kind, host, p : Session!Address(kind, host, p) = Bytes!Address(kind, host, p)
    /\ \A kind, host : Session!Encoded(kind, host) = Bytes!Encoded(kind, host)
    /\ Session!Zero = Bytes!Zero /\ Session!Byte = Bytes!Byte
    /\ Session!KnownTypes = Bytes!KnownTypes
<1>1. \A s : Session!HeaderSize(s) = Bytes!HeaderSize(s)
  BY DEF Session!HeaderSize, Session!HostStart, Session!HostSize,
         Bytes!HeaderSize, Bytes!HostStart, Bytes!HostSize
<1>2. \A s : Session!Decoded(s) = Bytes!Decoded(s)
  BY DEF Session!Decoded, Session!HostStart, Session!HostSize, Session!Address, Session!Kind,
         Bytes!Decoded, Bytes!HostStart, Bytes!HostSize, Bytes!Address, Bytes!Kind
<1>3. \A char, k : Session!Text(char, k) = Bytes!Text(char, k)
  BY DEF Session!Text, Bytes!Text
<1>4. \A kind : Session!HostBytes(kind) = Bytes!HostBytes(kind)
  BY DEF Session!HostBytes, Session!V4, Session!V6, Session!Text,
         Bytes!HostBytes, Bytes!V4, Bytes!V6, Bytes!Text
<1>5. \A s, n : Session!Drop(s, n) = Bytes!Drop(s, n)
  BY DEF Session!Drop, Bytes!Drop
<1>6. Session!Zero = Bytes!Zero /\ Session!Byte = Bytes!Byte
  BY DEF Session!Byte, Bytes!Byte, Session!Zero, Bytes!Zero
<1>7. \A kind, host : Session!Encoded(kind, host) = Bytes!Encoded(kind, host)
  BY DEF Session!Encoded, Session!AddrType, Bytes!Encoded, Bytes!AddrType
<1>8. \A kind, host, p : Session!Address(kind, host, p) = Bytes!Address(kind, host, p)
  BY DEF Session!Address, Bytes!Address
<1>9. Session!KnownTypes = Bytes!KnownTypes
  BY DEF Session!KnownTypes, Bytes!KnownTypes
<1>10. QED
  BY <1>1, <1>2, <1>3, <1>4, <1>5, <1>6, <1>7, <1>8, <1>9

LEMMA SessionPort == \A p : Session!Port16(p) = Bytes!Port16(p)
BY Zenon DEF Session!Port16, Bytes!Port16

(* Credentials are a name and a password, of any bytes. *)
Pair(a) == a = <<a[1], a[2]>> /\ a[1] \in ByteSeq /\ a[2] \in ByteSeq

LEMMA AuthsArePairs ==
    ASSUME NEW a \in Session!Auths, a # NoAuth
    PROVE  Pair(a)
<1>1. PICK u \in UserNames, w \in Passwords : a = <<u, w>>
  BY DEF Session!Auths
<1>2. u \in ByteSeq /\ w \in ByteSeq
  BY SessionAssumption DEF ByteSeq, Bytes!Byte
<1>3. QED
  BY <1>1, <1>2 DEF Pair

(* A length that does not fit its byte is 256 or more above what is sent. *)
LEMMA LengthSent ==
    ASSUME NEW n \in Nat
    PROVE  Low(n) \in Nat /\ Low(n) <= n /\ Low(n) \in Bytes!Byte /\ (n <= 255 \/ Low(n) + 256 <= n)
<1>1. Low(n) \in Nat /\ Low(n) <= 255 /\ Low(n) <= n /\ (n <= 255 \/ Low(n) + 256 <= n)
  BY DEF Low
<1>2. \A b \in Nat : b <= 255 => b \in Bytes!Byte
  BY DEF Bytes!Byte
<1>3. QED
  BY <1>1, <1>2

(* The bytes that the name u and the password w are sent as. *)
Sent(u, w) == <<1, Low(Len(u))>> \o u \o <<Low(Len(w))>> \o w

LEMMA CredentialsSent ==
    ASSUME NEW a
    PROVE  Session!Credentials(a) = Sent(a[1], a[2])
BY DEF Session!Credentials, Sent, Low

(* s begins with what u and w are sent as. *)
Opens(s, u, w) ==
    /\ s \in ByteSeq /\ u \in ByteSeq /\ w \in ByteSeq
    /\ Len(u) + Len(w) + 3 <= Len(s)
    /\ s[1] = 1 /\ s[2] = Low(Len(u)) /\ s[Len(u) + 3] = Low(Len(w))
    /\ \A i \in 1..Len(u) : s[2 + i] = u[i]
    /\ \A i \in 1..Len(w) : s[Len(u) + 3 + i] = w[i]

LEMMA SentBytes ==
    ASSUME NEW u \in ByteSeq, NEW w \in ByteSeq
    PROVE  Opens(Sent(u, w), u, w) /\ Len(Sent(u, w)) = Len(u) + Len(w) + 3
<1> DEFINE m == Len(u)
           k == Len(w)
           h == <<1, Low(m)>>
           b == <<Low(k)>>
           q == h \o u
           r == q \o b
           s == r \o w
<1>0. m \in Nat /\ k \in Nat
  BY BytesAre
<1> HIDE DEF m, k
<1>1. h \in ByteSeq /\ Len(h) = 2 /\ h[1] = 1 /\ h[2] = Low(m)
  BY <1>0, LengthSent, Digits DEF ByteSeq
<1>2. b \in ByteSeq /\ Len(b) = 1 /\ b[1] = Low(k)
  BY <1>0, LengthSent DEF ByteSeq
<1> HIDE DEF h, b
<1>4. /\ q \in ByteSeq /\ Len(q) = Len(h) + m
      /\ \A i \in 1..Len(h) : q[i] = h[i]
      /\ \A i \in 1..m : q[Len(h) + i] = u[i]
  <2>1. Two(h, u)
    BY <1>1 DEF Two
  <2>2. QED
    BY <2>1, Joined DEF m
<1> HIDE DEF q
<1>5. /\ r \in ByteSeq /\ Len(r) = Len(q) + Len(b)
      /\ \A i \in 1..Len(q) : r[i] = q[i]
      /\ \A i \in 1..Len(b) : r[Len(q) + i] = b[i]
  <2>1. Two(q, b)
    BY <1>2, <1>4 DEF Two
  <2>2. QED
    BY <2>1, Joined
<1> HIDE DEF r
<1>7. /\ s \in ByteSeq /\ Len(s) = Len(r) + k
      /\ \A i \in 1..Len(r) : s[i] = r[i]
      /\ \A i \in 1..k : s[Len(r) + i] = w[i]
  <2>1. Two(r, w)
    BY <1>5 DEF Two
  <2>2. QED
    BY <2>1, Joined DEF k
<1> HIDE DEF s
<1>8. Len(q) = m + 2 /\ Len(r) = m + 3 /\ Len(s) = m + k + 3
  <2>1. Len(q) = m + 2
    BY <1>0, <1>1, <1>4
  <2>2. Len(r) = m + 3
    BY <1>0, <1>2, <1>5, <2>1
  <2>3. QED
    BY <1>0, <1>7, <2>1, <2>2
<1>9. s[1] = 1 /\ s[2] = Low(m)
  <2>1. \A i \in 1..2 : i \in 1..Len(h) /\ i \in 1..Len(q) /\ i \in 1..Len(r)
    BY <1>0, <1>1, <1>8
  <2>2. \A i \in 1..2 : s[i] = h[i]
    BY <1>4, <1>5, <1>7, <2>1
  <2>3. QED
    BY <1>1, <2>2
<1>10. ASSUME NEW i \in 1..m PROVE s[2 + i] = u[i]
  <2>1. 2 + i \in 1..Len(q) /\ 2 + i \in 1..Len(r)
    BY <1>0, <1>8
  <2>2. q[2 + i] = u[i]
    BY <1>1, <1>4
  <2>3. r[2 + i] = q[2 + i] /\ s[2 + i] = r[2 + i]
    BY <1>5, <1>7, <2>1
  <2>4. QED
    BY <2>2, <2>3
<1>11. s[m + 3] = Low(k)
  <2>1. 1 \in 1..Len(b) /\ m + 3 \in 1..Len(r)
    BY <1>0, <1>2, <1>8
  <2>2. r[Len(q) + 1] = b[1]
    BY <1>5, <2>1
  <2>3. Len(q) + 1 = m + 3
    BY <1>0, <1>8
  <2>4. s[m + 3] = r[m + 3]
    BY <1>7, <2>1
  <2>5. QED
    BY <1>2, <2>2, <2>3, <2>4
<1>12. \A i \in 1..k : s[m + 3 + i] = w[i]
  BY <1>7, <1>8
<1>13. m + k + 3 <= Len(s)
  BY <1>0, <1>8
<1>14. s = Sent(u, w)
  BY DEF s, r, q, h, b, m, k, Sent
<1>15. Opens(s, u, w)
  BY <1>7, <1>9, <1>10, <1>11, <1>12, <1>13 DEF Opens, m, k
<1>16. QED
  BY <1>8, <1>14, <1>15 DEF m, k

(* What begins so begins with those very bytes. *)
LEMMA SameBeginning ==
    ASSUME NEW s, NEW u, NEW w, Opens(s, u, w)
    PROVE  Session!IsPrefix(Sent(u, w), s)
<1> DEFINE t == Sent(u, w)
           m == Len(u)
           k == Len(w)
           n == Len(t)
           p == SubSeq(s, 1, n)
<1>1. u \in ByteSeq /\ w \in ByteSeq /\ m \in Nat /\ k \in Nat /\ s \in ByteSeq /\ Len(s) \in Nat
  BY BytesAre DEF Opens
<1>2. Opens(t, u, w) /\ n = m + k + 3
  BY <1>1, SentBytes
<1>3. t \in ByteSeq
  BY <1>2 DEF Opens
<1> HIDE DEF t, m, k
<1>4. \A i \in 1..n : t[i] = s[i]
  <2>1. /\ t[1] = s[1] /\ t[2] = s[2] /\ t[m + 3] = s[m + 3]
        /\ \A j \in 1..m : t[2 + j] = s[2 + j]
        /\ \A j \in 1..k : t[m + 3 + j] = s[m + 3 + j]
    BY <1>2 DEF Opens, m, k
  <2>2. ASSUME NEW i \in 1..n
        PROVE  \/ i \in {1, 2, m + 3}
               \/ \E j \in 1..m : i = 2 + j
               \/ \E j \in 1..k : i = m + 3 + j
    <3>1. i \in Int /\ 1 <= i /\ i <= m + k + 3
      BY <1>1, <1>2
    <3>2. CASE i <= 2
      BY <3>1, <3>2
    <3>3. CASE 2 < i /\ i < m + 3
      <4>1. i - 2 \in 1..m /\ i = 2 + (i - 2)
        BY <1>1, <3>1, <3>3
      <4>2. QED
        BY <4>1
    <3>4. CASE i > m + 3
      <4>1. i - (m + 3) \in 1..k /\ i = m + 3 + (i - (m + 3))
        BY <1>1, <3>1, <3>4
      <4>2. QED
        BY <4>1
    <3>5. QED
      BY <1>1, <3>1, <3>2, <3>3, <3>4
  <2>3. QED
    BY <2>1, <2>2
<1>5. n \in Nat /\ n <= Len(s)
  BY <1>1, <1>2 DEF Opens, m, k
<1> HIDE DEF n
<1>6. p \in ByteSeq /\ Len(p) = n /\ \A i \in 1..n : p[i] = s[i]
  <2>1. Holds(s, n)
    BY <1>1, <1>5 DEF Holds
  <2>2. QED
    BY <1>5, <2>1, Beginning
<1> HIDE DEF p
<1>7. p = t
  BY <1>3, <1>4, <1>6, Equal DEF n
<1>8. SubSeq(t, 1, n) = t
  BY <1>3, SubSeqFull DEF ByteSeq, n
<1>9. QED
  BY <1>5, <1>7, <1>8 DEF Session!IsPrefix, n, t, p

(* Names and passwords that fit their length bytes are read in one way only. *)
LEMMA OneReading ==
    ASSUME NEW s, NEW u, NEW w, NEW x, NEW y, Opens(s, u, w), Opens(s, x, y),
           Len(u) <= 255, Len(w) <= 255, Len(x) <= 255, Len(y) <= 255
    PROVE  u = x /\ w = y
<1>1. /\ u \in ByteSeq /\ w \in ByteSeq /\ x \in ByteSeq /\ y \in ByteSeq
      /\ Len(u) \in Nat /\ Len(w) \in Nat /\ Len(x) \in Nat /\ Len(y) \in Nat
  BY BytesAre DEF Opens
<1>2. Low(Len(u)) = Len(u) /\ Low(Len(w)) = Len(w) /\ Low(Len(x)) = Len(x) /\ Low(Len(y)) = Len(y)
  BY <1>1, ShortLength
<1>3. Len(u) = Len(x)
  BY <1>2 DEF Opens
<1>4. Len(w) = Len(y)
  BY <1>2, <1>3 DEF Opens
<1>5. u = x
  <2>1. \A i \in 1..Len(u) : u[i] = x[i]
    BY <1>3 DEF Opens
  <2>2. QED
    BY <1>1, <1>3, <2>1, Equal
<1>6. w = y
  <2>1. \A i \in 1..Len(w) : w[i] = y[i]
    BY <1>3, <1>4 DEF Opens
  <2>2. QED
    BY <1>1, <1>4, <2>1, Equal
<1>7. QED
  BY <1>5, <1>6

(* What verifyUsernamePassword reads of the message s. *)
UserOf(s) == SubSeq(s, 3, 2 + s[2])
PassSize(s) == s[3 + s[2]]
PassOf(s) == SubSeq(s, 4 + s[2], 3 + s[2] + PassSize(s))
ReadSize(s) == 3 + s[2] + PassSize(s)

(* The message begins with what it reads. *)
LEMMA ServerReads ==
    ASSUME NEW s \in ByteSeq, s[1] = 1, Len(s) >= 3, Len(s) >= 3 + s[2], Len(s) >= ReadSize(s)
    PROVE  /\ s[2] \in Nat /\ PassSize(s) \in Nat
           /\ Opens(s, UserOf(s), PassOf(s))
           /\ Len(UserOf(s)) = s[2] /\ Len(PassOf(s)) = PassSize(s)
           /\ s[2] <= 255 /\ PassSize(s) <= 255
<1> DEFINE m == s[2]
           k == PassSize(s)
           u == UserOf(s)
           w == PassOf(s)
           z == m + 3
<1>1. Len(s) \in Nat /\ \A i \in 1..Len(s) : s[i] \in Bytes!Byte
  BY BytesAre
<1>0. \A b \in Bytes!Byte : b \in Nat /\ b <= 255
  BY DEF Bytes!Byte
<1>2. m \in Nat /\ m <= 255
  <2>1. m \in Bytes!Byte
    BY <1>1
  <2>2. QED
    BY <1>0, <2>1
<1>3. k \in Nat /\ k <= 255
  <2>1. 3 + m \in 1..Len(s)
    BY <1>1, <1>2
  <2>2. k \in Bytes!Byte
    BY <1>1, <2>1 DEF PassSize
  <2>3. QED
    BY <1>0, <2>2
<1>4. k = s[z] /\ z \in Nat /\ 3 + m + k <= Len(s) /\ z + k <= Len(s)
  <2>1. 3 + m = z
    BY <1>2
  <2>2. Len(s) >= 3 + m + k
    BY DEF ReadSize
  <2>3. QED
    BY <1>1, <1>2, <1>3, <2>1, <2>2 DEF PassSize
<1>5. u = SubSeq(s, 2 + 1, 2 + m) /\ w = SubSeq(s, z + 1, z + k)
  <2>1. 4 + m = z + 1 /\ 3 + m + k = z + k /\ 2 + 1 = 3
    BY <1>2, <1>3
  <2>2. QED
    BY <2>1 DEF UserOf, PassOf
<1> HIDE DEF m, k, u, w
<1>6. u \in ByteSeq /\ Len(u) = m /\ \A i \in 1..m : u[i] = s[2 + i]
  <2> DEFINE two == 2
             t == SubSeq(s, two + 1, two + m)
  <2>1. two \in Nat /\ Within(s, two, m)
    BY <1>1, <1>2, <1>3, <1>4 DEF Within
  <2> HIDE DEF two
  <2>2. t \in ByteSeq /\ Len(t) = m /\ \A i \in 1..m : t[i] = s[two + i]
    BY <1>2, <2>1, Slice
  <2>3. QED
    BY <1>5, <2>2 DEF two, t
<1>7. w \in ByteSeq /\ Len(w) = k /\ \A i \in 1..k : w[i] = s[z + i]
  <2>1. Within(s, z, k) /\ z \in Nat
    BY <1>4 DEF Within
  <2> HIDE DEF z
  <2> DEFINE t == SubSeq(s, z + 1, z + k)
  <2>2. t \in ByteSeq /\ Len(t) = k /\ \A i \in 1..k : t[i] = s[z + i]
    BY <1>3, <2>1, Slice
  <2> HIDE DEF t
  <2>3. w = t
    BY <1>5 DEF t
  <2>4. QED
    BY <2>2, <2>3
<1>8. Low(m) = m /\ Low(k) = k
  BY <1>2, <1>3, ShortLength
<1>9. s[2] = m
  BY DEF m
<1>11. Len(u) + Len(w) + 3 <= Len(s)
  BY <1>1, <1>2, <1>3, <1>4, <1>6, <1>7
<1>10. Opens(s, u, w)
  BY <1>4, <1>6, <1>7, <1>8, <1>9, <1>11 DEF Opens
<1>12. QED
  BY <1>2, <1>3, <1>6, <1>7, <1>10 DEF m, k, u, w

(* Who is let in has sent the credentials configured, which fit their length
   bytes, and has no others if its own fit theirs. *)
Match ==
    /\ clientAuth # NoAuth /\ Session!Writable(auth)
    /\ Session!IsPrefix(Session!Credentials(auth), Session!Credentials(clientAuth))
    /\ Session!Writable(clientAuth) => clientAuth = auth

(* Of credentials that fit, the server reads all there is. *)
LEMMA CredentialsRead ==
    ASSUME clientAuth \in Session!Auths, clientAuth # NoAuth,
           NEW s, s = Session!Credentials(clientAuth)
    PROVE  /\ s \in ByteSeq /\ Len(s) >= 3 /\ s[1] = 1
           /\ Opens(s, clientAuth[1], clientAuth[2])
           /\ Len(s) >= 3 + s[2]
<1> DEFINE u == clientAuth[1]
           w == clientAuth[2]
<1>1. Pair(clientAuth)
  BY AuthsArePairs
<1>2. u \in ByteSeq /\ w \in ByteSeq
  BY <1>1 DEF Pair
<1>3. s = Sent(u, w)
  BY CredentialsSent
<1> HIDE DEF u, w
<1>4. Opens(s, u, w) /\ Len(s) = Len(u) + Len(w) + 3
  BY <1>2, <1>3, SentBytes
<1>5. Len(u) \in Nat /\ Len(w) \in Nat
  BY <1>2, BytesAre
<1>6. s \in ByteSeq /\ s[1] = 1 /\ s[2] = Low(Len(u))
  BY <1>4 DEF Opens
<1>7. Low(Len(u)) \in Nat /\ Low(Len(u)) <= Len(u)
  BY <1>5, LengthSent
<1>8. Len(s) >= 3 /\ Len(s) >= 3 + s[2]
  BY <1>4, <1>5, <1>6, <1>7
<1>9. QED
  BY <1>4, <1>6, <1>8 DEF u, w

LEMMA CredentialsChecked ==
    ASSUME auth \in Session!Auths, auth # NoAuth, clientAuth \in Session!Auths, clientAuth # NoAuth,
           NEW s, s = Session!Credentials(clientAuth), Len(s) >= ReadSize(s)
    PROVE  /\ s[2] \in Nat /\ PassSize(s) \in Nat
           /\ Session!Accepts(UserOf(s), PassOf(s)) => Match
           /\ ~Session!Accepts(UserOf(s), PassOf(s)) /\ clientAuth = auth => ~Session!Writable(auth)
           /\ Session!Writable(clientAuth) => ReadSize(s) = Len(s)
<1> DEFINE u == UserOf(s)
           w == PassOf(s)
           x == clientAuth[1]
           y == clientAuth[2]
<1>1. Pair(auth) /\ Pair(clientAuth)
  BY AuthsArePairs
<1>2. /\ s \in ByteSeq /\ Len(s) >= 3 /\ s[1] = 1
      /\ Opens(s, x, y) /\ Len(s) >= 3 + s[2]
  BY CredentialsRead
<1>3. /\ s[2] \in Nat /\ PassSize(s) \in Nat /\ Opens(s, u, w)
      /\ Len(u) = s[2] /\ Len(w) = PassSize(s) /\ Len(u) <= 255 /\ Len(w) <= 255
  BY <1>2, ServerReads
<1> HIDE DEF u, w, x, y
<1>4. Len(x) <= 255 /\ Len(y) <= 255 => u = x /\ w = y
  BY <1>2, <1>3, OneReading
<1>5. Session!Writable(clientAuth) <=> Len(x) <= 255 /\ Len(y) <= 255
  BY DEF Session!Writable, x, y
<1>6. Session!Accepts(u, w) <=> u = auth[1] /\ w = auth[2]
  BY DEF Session!Accepts
<1>7. ASSUME Session!Accepts(u, w) PROVE Match
  <2>1. u = auth[1] /\ w = auth[2]
    BY <1>6, <1>7
  <2>2. Session!IsPrefix(Session!Credentials(auth), s)
    BY <1>3, <2>1, SameBeginning, CredentialsSent
  <2>3. Session!Writable(auth)
    BY <1>3, <2>1 DEF Session!Writable
  <2>4. Session!Writable(clientAuth) => clientAuth = auth
    BY <1>1, <1>4, <1>5, <2>1 DEF Pair, x, y
  <2>5. QED
    BY <2>2, <2>3, <2>4 DEF Match
<1>8. clientAuth = auth /\ Session!Writable(auth) => Session!Accepts(u, w)
  BY <1>4, <1>5, <1>6 DEF x, y
<1>9. Session!Writable(clientAuth) => ReadSize(s) = Len(s)
  <2>1. SUFFICES ASSUME Session!Writable(clientAuth) PROVE ReadSize(s) = Len(s)
    OBVIOUS
  <2>2. u = x /\ w = y
    BY <1>4, <1>5, <2>1
  <2>3. Len(s) = Len(x) + Len(y) + 3
    BY <1>1, SentBytes, CredentialsSent DEF Pair, x, y
  <2>4. QED
    BY <1>3, <2>2, <2>3 DEF ReadSize
<1>10. QED
  BY <1>3, <1>7, <1>8, <1>9 DEF u, w

-----------------------------------------------------------------------------
(* A session: bytes are sent, whoever sends them.                            *)

LEMMA EncodedBytes ==
    ASSUME NEW kind \in Kinds, NEW host \in ByteSeq
    PROVE  Bytes!Encoded(kind, host) \in ByteSeq
<1> DEFINE t == TypeByte(kind)
           l == LengthByte(kind, host)
<1>1. t \in ByteSeq
  BY TypeBytes, OneByte DEF TypeByte
<1>2. l \in ByteSeq
  <2>1. Low(Len(host)) \in Bytes!Byte
    BY BytesAre, LengthSent
  <2>2. <<Low(Len(host))>> \in ByteSeq
    BY <2>1, OneByte
  <2>3. QED
    BY <2>2, NoBytes DEF LengthByte
<1>3. Bytes!Encoded(kind, host) = (t \o l) \o host
  BY DEF Bytes!Encoded, Low, TypeByte, LengthByte
<1> HIDE DEF t, l
<1>4. Three(t, l, host)
  BY <1>1, <1>2 DEF Three
<1>5. QED
  BY <1>3, <1>4, Pieces

(* Requests and replies. *)
LEMMA MessageBytes ==
    ASSUME NEW h \in ByteSeq, NEW kind \in Kinds, NEW host \in ByteSeq, NEW p \in Nat
    PROVE  h \o Bytes!Encoded(kind, host) \o Bytes!Port16(p) \in ByteSeq
<1> DEFINE e == Bytes!Encoded(kind, host)
           q == Bytes!Port16(p)
<1>1. e \in ByteSeq /\ q \in ByteSeq
  BY EncodedBytes, PortWritten
<1> HIDE DEF e, q
<1>2. Three(h, e, q)
  BY <1>1 DEF Three
<1>3. (h \o e) \o q \in ByteSeq
  BY <1>2, Pieces
<1>4. QED
  BY <1>3 DEF e, q

LEMMA TargetBytes ==
    ASSUME NEW a \in Session!Targets
    PROVE  a.kind \in Kinds /\ a.bytes \in ByteSeq /\ a.port \in Nat
           /\ a = Bytes!Address(a.kind, a.bytes, a.port)
           /\ (Len(a.bytes) <= 255 => Fitted(a.kind, a.bytes))
<1>1. CASE \E kind \in {"v4", "v6"}, p \in Ports :
               a = Session!Address(kind, Session!HostBytes(kind), p)
  <2>1. PICK kind \in {"v4", "v6"}, p \in Ports :
               a = Bytes!Address(kind, Bytes!HostBytes(kind), p)
    BY <1>1, SessionBytes
  <2>2. p \in Nat
    BY SessionAssumption
  <2>3. Fitted(kind, Bytes!HostBytes(kind)) /\ kind \in Kinds /\ Bytes!HostBytes(kind) \in ByteSeq
    BY HostsFit, Hosts
  <2>4. QED
    BY <2>1, <2>2, <2>3, AddressFields
<1>2. CASE \E k \in HostLengths, p \in Ports :
               a = Session!Address("name", Session!Text(104, k), p)
  <2>1. PICK k \in HostLengths, p \in Ports :
               a = Bytes!Address("name", Bytes!Text(104, k), p)
    BY <1>2, SessionBytes
  <2>2. p \in Nat /\ k \in Nat
    BY SessionAssumption
  <2>3. Bytes!Text(104, k) \in ByteSeq /\ Len(Bytes!Text(104, k)) = k /\ "name" \in Kinds
    BY <2>2, Digits, TextIs DEF Kinds
  <2>4. k <= 255 => Fitted("name", Bytes!Text(104, k))
    BY <2>2, HostsFit
  <2>5. QED
    BY <2>1, <2>2, <2>3, <2>4, AddressFields
<1>3. QED
  BY <1>1, <1>2 DEF Session!Targets

(* Of the session's set-up nothing changes. *)
SetUp ==
    /\ auth \in Session!Auths /\ clientAuth \in Session!Auths
    /\ allowUDP \in BOOLEAN /\ publicHost \in PublicHosts
    /\ command \in Commands /\ target \in Session!Targets

LEMMA RequestBytes == SetUp => Session!Request \in ByteSeq
<1> SUFFICES ASSUME SetUp PROVE Session!Request \in ByteSeq
  OBVIOUS
<1>1. target.kind \in Kinds /\ target.bytes \in ByteSeq /\ target.port \in Nat
  BY TargetBytes DEF SetUp
<1>2. <<5, command, 0>> \in ByteSeq
  <2>1. command \in Bytes!Byte
    BY SessionAssumption DEF SetUp, Bytes!Byte
  <2>2. QED
    BY <2>1, Digits DEF ByteSeq
<1>3. Session!Request
        = <<5, command, 0>> \o Bytes!Encoded(target.kind, target.bytes) \o Bytes!Port16(target.port)
  BY SessionBytes, SessionPort DEF Session!Request
<1>4. QED
  BY <1>1, <1>2, <1>3, MessageBytes

LEMMA CredentialBytes == SetUp /\ clientAuth # NoAuth => Session!Credentials(clientAuth) \in ByteSeq
<1> SUFFICES ASSUME SetUp, clientAuth # NoAuth PROVE Session!Credentials(clientAuth) \in ByteSeq
  OBVIOUS
<1>1. QED
  BY CredentialsRead DEF SetUp

(* The host of a reply: writeReply sends a name as 0.0.0.0. *)
ReplyKind(kind) == IF kind = "name" THEN "v4" ELSE kind
ReplyHost(kind, bytes) == IF kind = "name" THEN Bytes!Zero ELSE bytes

LEMMA ReplyWritten ==
    ASSUME NEW code, NEW kind, NEW bytes, NEW p
    PROVE  Session!writeReply(code, kind, bytes, p)
                = <<5, code, 0>> \o Bytes!Encoded(ReplyKind(kind), ReplyHost(kind, bytes))
                    \o Bytes!Port16(p)
<1>1. (IF kind = "name" THEN Session!Encoded("v4", Session!Zero) ELSE Session!Encoded(kind, bytes))
        = Bytes!Encoded(ReplyKind(kind), ReplyHost(kind, bytes))
  BY SessionBytes DEF ReplyKind, ReplyHost
<1>2. QED
  BY <1>1, SessionPort, Zenon DEF Session!writeReply

LEMMA ReplyBytes ==
    ASSUME NEW code \in {0, 1, 7}, NEW kind \in Kinds, NEW bytes \in ByteSeq, NEW p \in Nat
    PROVE  Session!writeReply(code, kind, bytes, p) \in ByteSeq
<1>1. <<5, code, 0>> \in ByteSeq
  <2>1. code \in Bytes!Byte
    BY Digits
  <2>2. QED
    BY <2>1, Digits DEF ByteSeq
<1>2. ReplyKind(kind) \in Kinds /\ ReplyHost(kind, bytes) \in ByteSeq
  BY HostsFit, Hosts DEF ReplyKind, ReplyHost, Kinds
<1>3. QED
  BY <1>1, <1>2, ReplyWritten, MessageBytes

LEMMA HostKinds ==
    ASSUME NEW kind \in Kinds
    PROVE  Bytes!HostBytes(kind) \in ByteSeq
<1>1. CASE kind \in {"v4", "v6"}
  BY <1>1, HostsFit, Hosts
<1>2. CASE kind = "name"
  <2>1. Bytes!HostBytes(kind) = Bytes!Text(104, 1)
    BY <1>2 DEF Bytes!HostBytes
  <2>2. QED
    BY <2>1, Digits, TextIs
<1>3. QED
  BY <1>1, <1>2 DEF Kinds

LEMMA Appended ==
    /\ \A s, t \in ByteSeq : s \o t \in ByteSeq
    /\ \A s \in ByteSeq : s \o <<>> = s /\ <<>> \o s = s
BY ConcatProperties, ConcatEmptySeq DEF ByteSeq

(* One write of the server. *)
LEMMA ServerSends ==
    ASSUME toClient \in ByteSeq, NEW next, NEW bytes \in ByteSeq, Session!ServerGoes(next, bytes)
    PROVE  spc' = next /\ toClient' = toClient \o bytes /\ toClient' \in ByteSeq
BY Appended DEF Session!ServerGoes

-----------------------------------------------------------------------------
(* What is left of a message, or of the stream, is bytes again.               *)

LEMMA Skipped ==
    ASSUME NEW s \in ByteSeq, NEW n \in Nat, n <= Len(s)
    PROVE  Bytes!Drop(s, n) \in ByteSeq
<1>1. Holds(s, n)
  BY DEF Holds
<1>2. QED
  BY <1>1, Rest

LEMMA AllSkipped ==
    ASSUME NEW s \in ByteSeq
    PROVE  SubSeq(s, Len(s) + 1, Len(s)) = <<>>
BY SubSeqEmpty, BytesAre DEF ByteSeq

LEMMA HeaderSkipped ==
    ASSUME NEW s \in ByteSeq, Len(s) >= 5, Len(s) >= Bytes!HeaderSize(s), s[4] \in Bytes!KnownTypes
    PROVE  Bytes!Drop(s, Bytes!HeaderSize(s)) \in ByteSeq
<1>1. s[5] \in Nat
  <2>1. Len(s) \in Nat /\ \A i \in 1..Len(s) : s[i] \in Bytes!Byte
    BY BytesAre
  <2>2. 5 \in 1..Len(s)
    BY <2>1
  <2>3. s[5] \in Bytes!Byte
    BY <2>1, <2>2
  <2>4. \A b \in Bytes!Byte : b \in Nat
    BY DEF Bytes!Byte
  <2>5. QED
    BY <2>3, <2>4
<1>2. Bytes!HeaderSize(s) \in Nat
  <2>1. CASE s[4] = 1
    BY <2>1 DEF Bytes!HeaderSize, Bytes!HostStart, Bytes!HostSize
  <2>2. CASE s[4] = 3
    BY <1>1, <2>2 DEF Bytes!HeaderSize, Bytes!HostStart, Bytes!HostSize
  <2>3. CASE s[4] = 4
    BY <2>3 DEF Bytes!HeaderSize, Bytes!HostStart, Bytes!HostSize
  <2>4. QED
    BY <2>1, <2>2, <2>3 DEF Bytes!KnownTypes
<1>3. QED
  BY <1>2, Skipped

-----------------------------------------------------------------------------
(* A session: who is let in.                                                 *)

Greeting == <<5, 1, IF clientAuth = NoAuth THEN 0 ELSE 2>>

SessionTypes ==
    /\ SetUp
    /\ toServer \in ByteSeq /\ toClient \in ByteSeq
    /\ cpc \in {"greet", "method", "auth", "reply", "open", "failed"}
    /\ spc \in {"greet", "auth", "request", "dial", "relay", "associated", "refused", "closed"}

(* The server reads the greeting first, and then, if it asks for them, the
   credentials: nothing else can be under way. *)
GreetingFirst ==
    /\ cpc = "greet" => spc = "greet"
    /\ spc = "greet" =>
         /\ toClient = <<>> /\ asked = NoAddr
         /\ \/ cpc = "greet" /\ toServer = <<>>
            \/ cpc \in {"method", "failed"} /\ toServer = Greeting

CredentialsNext ==
    spc = "auth" =>
        /\ auth # NoAuth /\ clientAuth # NoAuth /\ asked = NoAddr
        /\ \/ cpc = "method" /\ toServer = <<>> /\ toClient = <<5, 2>>
           \/ cpc = "auth" /\ toServer = Session!Credentials(clientAuth) /\ toClient = <<>>
           \/ cpc = "failed" /\ toServer \in {<<>>, Session!Credentials(clientAuth)}

LetIn ==
    /\ (spc \in {"request", "dial", "relay", "associated"} \/ asked # NoAddr) /\ auth # NoAuth => Match
    /\ Session!RefusedForCause

SessionInv == SessionTypes /\ GreetingFirst /\ CredentialsNext /\ LetIn

LEMMA SessionInitially == Session!Init => SessionInv
BY NoBytes DEF Session!Init, SessionInv, SessionTypes, SetUp, GreetingFirst, CredentialsNext, LetIn,
       Session!RefusedForCause

(* What is known of the set-up stays known. *)
LEMMA SetUpKept ==
    UNCHANGED Session!config =>
        /\ auth' = auth /\ clientAuth' = clientAuth
        /\ SetUp => SetUp'
        /\ Match' <=> Match
        /\ Greeting' = Greeting
        /\ (spc' # "refused" \/ spc' = spc) /\ Session!RefusedForCause => Session!RefusedForCause'
BY DEF Session!config, SetUp, Match, Greeting, Session!RefusedForCause, Session!Writable,
       Session!IsPrefix, Session!Credentials

LEMMA ClientKeeps == SessionInv /\ Session!ClientStep => SessionInv'
<1> SUFFICES ASSUME SessionInv, Session!ClientStep PROVE SessionInv'
  OBVIOUS
<1> USE DEF SessionInv, Session!ClientGoes
<1>1. SetUp /\ toServer \in ByteSeq /\ toClient \in ByteSeq
  BY DEF SessionTypes
<1>2. /\ UNCHANGED Session!config /\ UNCHANGED spc /\ UNCHANGED asked
  BY DEF Session!ClientStep, Session!ClientGreet, Session!ClientMethod, Session!ClientAuth,
         Session!ClientReply, Session!ClientFails
<1>3. LetIn'
  BY <1>2, SetUpKept DEF LetIn
<1>4. SetUp' /\ auth' = auth /\ clientAuth' = clientAuth /\ Greeting' = Greeting
  BY <1>1, <1>2, SetUpKept
<1>5. CASE Session!ClientGreet
  <2>1. Greeting \in ByteSeq
    BY Digits DEF Greeting, ByteSeq
  <2>2. spc = "greet" /\ toServer = <<>>
    BY <1>5 DEF Session!ClientGreet, GreetingFirst
  <2>3. toServer' = Greeting
    BY <1>5, <2>1, <2>2, Appended DEF Session!ClientGreet, Greeting
  <2>4. QED
    BY <1>2, <1>3, <1>4, <1>5, <2>1, <2>2, <2>3
       DEF Session!ClientGreet, SessionTypes, GreetingFirst, CredentialsNext
<1>6. CASE Session!ClientMethod
  <2>1. spc # "greet" /\ cpc = "method"
    BY <1>6, NoBytes DEF Session!ClientMethod, GreetingFirst
  <2>2. /\ toServer' \in ByteSeq /\ cpc' \in {"reply", "auth", "failed"}
    BY <1>1, <1>6, RequestBytes, CredentialBytes, Appended, NoBytes DEF Session!ClientMethod, Session!AnswerIs
  <2>3. toClient' \in ByteSeq
    BY <1>1, <1>6, SessionBytes, Skipped DEF Session!ClientMethod
  <2>4. CredentialsNext'
    <3> SUFFICES ASSUME spc' = "auth" PROVE CredentialsNext'
      BY DEF CredentialsNext
    <3>1. auth # NoAuth /\ clientAuth # NoAuth /\ asked = NoAddr /\ toServer = <<>> /\ toClient = <<5, 2>>
      BY <1>2, <2>1 DEF CredentialsNext
    <3>2. toClient[2] = 2 /\ Session!Drop(toClient, 2) = <<>>
      BY <3>1, AllSkipped DEF Session!Drop
    <3>3. cpc' = "auth" /\ toServer' = <<>> \o Session!Credentials(clientAuth) /\ toClient' = <<>>
      BY <1>6, <3>1, <3>2 DEF Session!ClientMethod, Session!AnswerIs
    <3>4. toServer' = Session!Credentials(clientAuth)
      BY <1>1, <3>1, <3>3, CredentialBytes, Appended
    <3>5. QED
      BY <1>2, <1>4, <3>1, <3>3, <3>4 DEF CredentialsNext
  <2>5. QED
    BY <1>2, <1>3, <1>4, <2>1, <2>2, <2>3, <2>4 DEF SessionTypes, GreetingFirst
<1>7. CASE Session!ClientAuth
  <2>1. spc # "greet" /\ spc # "auth" /\ cpc = "auth"
    BY <1>7, NoBytes DEF Session!ClientAuth, GreetingFirst, CredentialsNext
  <2>2. /\ toServer' \in ByteSeq /\ cpc' \in {"reply", "failed"}
    BY <1>1, <1>7, RequestBytes, Appended, NoBytes DEF Session!ClientAuth, Session!AnswerIs
  <2>3. toClient' \in ByteSeq
    BY <1>1, <1>7, SessionBytes, Skipped DEF Session!ClientAuth
  <2>4. QED
    BY <1>2, <1>3, <1>4, <2>1, <2>2, <2>3 DEF SessionTypes, GreetingFirst, CredentialsNext
<1>8. CASE Session!ClientReply
  <2>1. spc # "greet" /\ spc # "auth" /\ cpc = "reply"
    BY <1>8 DEF Session!ClientReply, GreetingFirst, CredentialsNext
  <2>2. toServer' = toServer /\ cpc' \in {"open", "failed"}
    BY <1>1, <1>8, Appended DEF Session!ClientReply
  <2>3. toClient' \in ByteSeq
    <3>1. \/ toClient' = toClient
          \/ /\ toClient[4] \in Bytes!KnownTypes /\ Len(toClient) >= 5
             /\ Len(toClient) >= Bytes!HeaderSize(toClient)
             /\ toClient' = Bytes!Drop(toClient, Bytes!HeaderSize(toClient))
      BY <1>8, SessionBytes DEF Session!ClientReply, Session!Complete
    <3>2. QED
      BY <1>1, <3>1, HeaderSkipped
  <2>4. QED
    BY <1>1, <1>2, <1>3, <1>4, <2>1, <2>2, <2>3 DEF SessionTypes, GreetingFirst, CredentialsNext
<1>9. CASE Session!ClientFails
  BY <1>1, <1>2, <1>3, <1>4, <1>9 DEF Session!ClientFails, SessionTypes, GreetingFirst, CredentialsNext
<1>10. QED
  BY <1>5, <1>6, <1>7, <1>8, <1>9 DEF Session!ClientStep

(* The actions of the server. *)
LEMMA ServerFrame ==
    ASSUME SessionInv, UNCHANGED Session!config
    PROVE  /\ SetUp /\ SetUp' /\ auth' = auth /\ clientAuth' = clientAuth /\ Greeting' = Greeting
           /\ toServer \in ByteSeq /\ toClient \in ByteSeq
           /\ spc' # "refused" => Session!RefusedForCause'
           /\ Match' <=> Match
BY SetUpKept DEF SessionInv, SessionTypes, LetIn, Session!RefusedForCause

LEMMA ShortReplies ==
    /\ <<5, 0>> \in ByteSeq /\ <<5, 2>> \in ByteSeq /\ <<5, 255>> \in ByteSeq
    /\ <<1, 0>> \in ByteSeq /\ <<1, 1>> \in ByteSeq
BY Digits DEF ByteSeq

LEMMA RepliesAre ==
    /\ Session!writeReply(0, "v4", Session!HostBytes("v4"), 40000) \in ByteSeq
    /\ Session!writeReply(0, "v6", Session!HostBytes("v6"), 40000) \in ByteSeq
    /\ Session!writeReply(1, "v4", Session!Zero, 0) \in ByteSeq
    /\ Session!writeReply(7, "v4", Session!Zero, 0) \in ByteSeq
<1>1. Bytes!Zero \in ByteSeq /\ "v4" \in Kinds /\ "v6" \in Kinds
  BY HostsFit, Hosts DEF Kinds
<1>2. Bytes!HostBytes("v4") \in ByteSeq /\ Bytes!HostBytes("v6") \in ByteSeq
  BY <1>1, HostKinds
<1>3. Session!Zero \in ByteSeq /\ Session!HostBytes("v4") \in ByteSeq
      /\ Session!HostBytes("v6") \in ByteSeq
  BY <1>1, <1>2, SessionBytes
<1>4. 0 \in {0, 1, 7} /\ 1 \in {0, 1, 7} /\ 7 \in {0, 1, 7} /\ 0 \in Nat /\ 40000 \in Nat
  OBVIOUS
<1>5. Session!writeReply(0, "v4", Session!HostBytes("v4"), 40000) \in ByteSeq
  BY <1>1, <1>3, <1>4, ReplyBytes
<1>6. Session!writeReply(0, "v6", Session!HostBytes("v6"), 40000) \in ByteSeq
  BY <1>1, <1>3, <1>4, ReplyBytes
<1>7. Session!writeReply(1, "v4", Session!Zero, 0) \in ByteSeq
  BY <1>1, <1>3, <1>4, ReplyBytes
<1>8. Session!writeReply(7, "v4", Session!Zero, 0) \in ByteSeq
  BY <1>1, <1>3, <1>4, ReplyBytes
<1>9. QED
  BY <1>5, <1>6, <1>7, <1>8

(* What negotiateAuth makes of the greeting. *)
LEMMA GreetAnswers ==
    ASSUME SessionInv, Session!ServerGreet
    PROVE  /\ asked = NoAddr /\ cpc \in {"method", "failed"} /\ toServer' = <<>>
           /\ \/ spc' = "closed" /\ toClient' = <<5, 255>>
              \/ auth = NoAuth /\ spc' = "request" /\ toClient' = <<5, 0>>
              \/ auth # NoAuth /\ clientAuth # NoAuth /\ spc' = "auth" /\ toClient' = <<5, 2>>
<1> DEFINE method == IF clientAuth = NoAuth THEN 0 ELSE 2
           required == IF auth = NoAuth THEN 0 ELSE 2
<1>2. toServer \in ByteSeq /\ toClient \in ByteSeq
  BY DEF SessionInv, SessionTypes
<1>3. toServer = <<5, 1, method>> /\ toClient = <<>> /\ asked = NoAddr /\ cpc \in {"method", "failed"}
  <2>1. spc = "greet" /\ Len(toServer) >= 2
    BY DEF Session!ServerGreet
  <2>2. toServer # <<>>
    BY <2>1, NoBytes
  <2>3. QED
    BY <2>1, <2>2 DEF SessionInv, GreetingFirst, Greeting
<1>4. toServer[2] = 1 /\ {toServer[i] : i \in 3..(2 + toServer[2])} = {method}
  <2>1. toServer[2] = 1 /\ toServer[3] = method
    BY <1>3
  <2>2. 2 + 1 = 3 /\ 3..3 = {3}
    OBVIOUS
  <2>3. QED
    BY <2>1, <2>2
<1>5. toServer' = <<>>
  <2>1. toServer' = SubSeq(toServer, 3 + 1, Len(toServer))
    BY <1>4 DEF Session!ServerGreet, Session!Drop
  <2>2. Len(toServer) = 3
    BY <1>3
  <2>3. QED
    BY <1>2, <2>1, <2>2, AllSkipped
<1>6. \/ method # required /\ Session!ServerGoes("closed", <<5, 255>>)
      \/ method = required /\ auth = NoAuth /\ Session!ServerGoes("request", <<5, 0>>)
      \/ method = required /\ auth # NoAuth /\ Session!ServerGoes("auth", <<5, 2>>)
  <2> DEFINE offered == {toServer[i] : i \in 3..(2 + toServer[2])}
  <2>1. \/ required \notin offered /\ Session!ServerGoes("closed", <<5, 255>>)
        \/ required \in offered /\ auth = NoAuth /\ Session!ServerGoes("request", <<5, 0>>)
        \/ required \in offered /\ auth # NoAuth /\ Session!ServerGoes("auth", <<5, 2>>)
    BY DEF Session!ServerGreet
  <2>2. offered = {method}
    BY <1>4
  <2> HIDE DEF offered, required, method
  <2>3. required \in offered <=> method = required
    BY <2>2
  <2>4. QED
    BY <2>1, <2>3
<1>7. \/ spc' = "closed" /\ toClient' = <<5, 255>>
      \/ auth = NoAuth /\ spc' = "request" /\ toClient' = <<5, 0>>
      \/ auth # NoAuth /\ clientAuth # NoAuth /\ spc' = "auth" /\ toClient' = <<5, 2>>
  BY <1>2, <1>3, <1>6, ShortReplies, Appended DEF Session!ServerGoes
<1>8. QED
  BY <1>3, <1>5, <1>7

LEMMA GreetKeeps ==
    ASSUME SessionInv, Session!ServerGreet
    PROVE  SessionInv'
<1>1. UNCHANGED Session!config /\ UNCHANGED cpc /\ UNCHANGED asked
  BY DEF Session!ServerGreet
<1>2. /\ SetUp' /\ auth' = auth /\ clientAuth' = clientAuth
      /\ spc' # "refused" => Session!RefusedForCause'
  BY <1>1, ServerFrame
<1>3. /\ asked = NoAddr /\ cpc \in {"method", "failed"} /\ toServer' = <<>>
      /\ \/ spc' = "closed" /\ toClient' = <<5, 255>>
         \/ auth = NoAuth /\ spc' = "request" /\ toClient' = <<5, 0>>
         \/ auth # NoAuth /\ clientAuth # NoAuth /\ spc' = "auth" /\ toClient' = <<5, 2>>
  BY GreetAnswers
<1>4. SessionTypes'
  BY <1>1, <1>2, <1>3, NoBytes, ShortReplies DEF SessionTypes
<1>5. LetIn'
  BY <1>1, <1>2, <1>3 DEF LetIn
<1>6. GreetingFirst' /\ CredentialsNext'
  BY <1>1, <1>2, <1>3 DEF GreetingFirst, CredentialsNext
<1>7. QED
  BY <1>4, <1>5, <1>6 DEF SessionInv

(* What verifyUsernamePassword makes of the credentials. *)
LEMMA AuthAnswers ==
    ASSUME SessionInv, Session!ServerAuth
    PROVE  /\ auth # NoAuth /\ clientAuth # NoAuth /\ asked = NoAddr
           /\ cpc \in {"auth", "failed"} /\ (cpc = "auth" => toClient = <<>>)
           /\ toServer = Session!Credentials(clientAuth)
           /\ Len(toServer) >= ReadSize(toServer)
           /\ toServer' = Session!Drop(toServer, ReadSize(toServer))
           /\ \/ Session!Accepts(UserOf(toServer), PassOf(toServer))
                   /\ spc' = "request" /\ toClient' = toClient \o <<1, 0>>
              \/ ~Session!Accepts(UserOf(toServer), PassOf(toServer))
                   /\ spc' = "refused" /\ toClient' = toClient \o <<1, 1>>
<1>1. /\ auth # NoAuth /\ clientAuth # NoAuth /\ asked = NoAddr
      /\ cpc \in {"auth", "failed"} /\ (cpc = "auth" => toClient = <<>>)
      /\ toServer = Session!Credentials(clientAuth)
  <2>1. spc = "auth" /\ Len(toServer) >= 2
    BY DEF Session!ServerAuth
  <2>2. toServer # <<>>
    BY <2>1, NoBytes
  <2>3. QED
    BY <2>1, <2>2 DEF SessionInv, CredentialsNext
<1>2. Len(toServer) >= ReadSize(toServer) /\ toServer' = Session!Drop(toServer, ReadSize(toServer))
  BY DEF Session!ServerAuth, PassSize, ReadSize
<1>3. \/ Session!Accepts(UserOf(toServer), PassOf(toServer))
           /\ spc' = "request" /\ toClient' = toClient \o <<1, 0>>
      \/ ~Session!Accepts(UserOf(toServer), PassOf(toServer))
           /\ spc' = "refused" /\ toClient' = toClient \o <<1, 1>>
  BY DEF Session!ServerAuth, Session!ServerGoes, UserOf, PassOf, PassSize
<1>4. QED
  BY <1>1, <1>2, <1>3

LEMMA AuthKeeps ==
    ASSUME SessionInv, Session!ServerAuth
    PROVE  SessionInv'
<1>1. UNCHANGED Session!config /\ UNCHANGED cpc /\ UNCHANGED asked
  BY DEF Session!ServerAuth
<1>2. /\ SetUp /\ SetUp' /\ auth' = auth /\ clientAuth' = clientAuth
      /\ toServer \in ByteSeq /\ toClient \in ByteSeq
      /\ spc' # "refused" => Session!RefusedForCause'
      /\ Match' <=> Match
  BY <1>1, ServerFrame
<1>3. /\ auth # NoAuth /\ clientAuth # NoAuth /\ asked = NoAddr /\ cpc # "greet"
      /\ toServer = Session!Credentials(clientAuth)
  BY AuthAnswers
<1>4. Len(toServer) >= ReadSize(toServer) /\ toServer' = Session!Drop(toServer, ReadSize(toServer))
  BY AuthAnswers
<1>5. \/ Session!Accepts(UserOf(toServer), PassOf(toServer))
           /\ spc' = "request" /\ toClient' = toClient \o <<1, 0>>
      \/ ~Session!Accepts(UserOf(toServer), PassOf(toServer))
           /\ spc' = "refused" /\ toClient' = toClient \o <<1, 1>>
  BY AuthAnswers
<1>6. /\ toServer[2] \in Nat /\ PassSize(toServer) \in Nat
      /\ Session!Accepts(UserOf(toServer), PassOf(toServer)) => Match
      /\ ~Session!Accepts(UserOf(toServer), PassOf(toServer)) /\ clientAuth = auth =>
           ~Session!Writable(auth)
  BY <1>2, <1>3, <1>4, CredentialsChecked DEF SetUp
<1>7. toServer' \in ByteSeq
  <2> DEFINE n == ReadSize(toServer)
  <2>1. n \in Nat
    BY <1>6 DEF ReadSize
  <2> HIDE DEF n
  <2>2. Len(toServer) \in Nat /\ n <= Len(toServer)
    BY <1>2, <1>4, <2>1, BytesAre DEF n
  <2>3. Bytes!Drop(toServer, n) \in ByteSeq
    BY <1>2, <2>1, <2>2, Skipped
  <2>4. QED
    BY <1>4, <2>3, SessionBytes DEF n
<1>8. SessionTypes'
  <2>1. \A t \in ByteSeq : toClient \o t \in ByteSeq
    BY <1>2, Appended
  <2>3. toClient' \in ByteSeq
    BY <1>5, <2>1, ShortReplies
  <2>2. QED
    BY <1>1, <1>2, <1>5, <1>7, <2>3 DEF SessionInv, SessionTypes
<1>9. LetIn'
  <2>1. Session!RefusedForCause'
    BY <1>2, <1>5, <1>6 DEF Session!RefusedForCause, Session!Writable
  <2>2. QED
    BY <1>1, <1>2, <1>3, <1>5, <1>6, <2>1 DEF LetIn
<1>10. GreetingFirst' /\ CredentialsNext'
  BY <1>1, <1>3, <1>5 DEF GreetingFirst, CredentialsNext
<1>11. QED
  BY <1>8, <1>9, <1>10 DEF SessionInv

(* A request that is read is framed as one. *)
LEMMA FramedRequest ==
    ASSUME SessionInv, spc = "request", ~Session!Misframed, Session!Complete(toServer)
    PROVE  toServer[4] \in Bytes!KnownTypes
<1>1. Len(toServer) \in Nat /\ Len(toServer) >= 5
  BY BytesAre DEF SessionInv, SessionTypes, Session!Complete
<1>2. Len(toServer) >= 4
  BY <1>1
<1>3. "request" \in DOMAIN Session!ReadFirst /\ Session!ReadFirst["request"] = 4
  BY DEF Session!ReadFirst
<1>4. QED
  BY <1>2, <1>3, SessionBytes DEF Session!Misframed

(* A message that is none ends the session without an answer. *)
LEMMA Rejection ==
    ASSUME SessionInv, Session!ServerRejects
    PROVE  /\ spc \in {"greet", "auth", "request"} /\ Len(toServer) >= 1
           /\ spc' = "closed" /\ toClient' = toClient
           /\ UNCHANGED Session!config /\ UNCHANGED <<toServer, cpc, asked, bound>>
<1>1. spc \in DOMAIN Session!ReadFirst /\ Len(toServer) >= Session!ReadFirst[spc]
  BY DEF Session!ServerRejects, Session!Misframed
<1>2. spc \in {"greet", "auth", "request"} /\ Session!ReadFirst[spc] \in {1, 2, 4}
  BY <1>1 DEF Session!ReadFirst
<1>3. Len(toServer) \in Nat
  BY BytesAre DEF SessionInv, SessionTypes
<1>4. Len(toServer) >= 1
  BY <1>1, <1>2, <1>3
<1>5. spc' = "closed" /\ toClient' = toClient
  BY Appended DEF Session!ServerRejects, Session!ServerGoes, SessionInv, SessionTypes
<1>6. QED
  BY <1>2, <1>4, <1>5 DEF Session!ServerRejects

LEMMA RejectKeeps ==
    ASSUME SessionInv, Session!ServerRejects
    PROVE  SessionInv'
<1>1. /\ spc \in {"greet", "auth", "request"} /\ Len(toServer) >= 1
      /\ spc' = "closed" /\ toClient' = toClient
      /\ UNCHANGED Session!config /\ UNCHANGED <<toServer, cpc, asked>>
  BY Rejection
<1>2. /\ SetUp' /\ auth' = auth /\ clientAuth' = clientAuth
      /\ spc' # "refused" => Session!RefusedForCause'
      /\ Match' <=> Match
  BY <1>1, ServerFrame
<1>3. toServer # <<>>
  BY <1>1, NoBytes
<1>4. cpc # "greet"
  BY <1>3 DEF SessionInv, GreetingFirst
<1>5. QED
  BY <1>1, <1>2, <1>4 DEF SessionInv, SessionTypes, LetIn, GreetingFirst, CredentialsNext

LEMMA RequestKeeps ==
    ASSUME SessionInv, Session!ServerRequest
    PROVE  SessionInv'
<1>1. UNCHANGED Session!config /\ UNCHANGED cpc /\ spc = "request"
  BY DEF Session!ServerRequest
<1>2. /\ SetUp /\ SetUp' /\ auth' = auth /\ clientAuth' = clientAuth
      /\ toServer \in ByteSeq /\ toClient \in ByteSeq
      /\ spc' # "refused" => Session!RefusedForCause'
      /\ Match' <=> Match
  BY <1>1, ServerFrame
<1>3. spc' \in {"dial", "associated", "closed"} /\ toClient' \in ByteSeq
  <2>1. Session!writeReply(7, "v4", Session!Zero, 0) \in ByteSeq
    BY RepliesAre
  <2>2. Session!writeReply(0, publicHost, Session!HostBytes(publicHost), 1080) \in ByteSeq
    <3>1. publicHost \in Kinds
      BY <1>2, SessionAssumption DEF SetUp, Kinds
    <3>2. Bytes!HostBytes(publicHost) \in ByteSeq
      BY <3>1, HostKinds
    <3>3. QED
      BY <3>1, <3>2, SessionBytes, ReplyBytes
  <2>3. QED
    <3>1. \/ Session!ServerGoes("dial", <<>>)
          \/ Session!ServerGoes("associated",
                                 Session!writeReply(0, publicHost, Session!HostBytes(publicHost), 1080))
          \/ Session!ServerGoes("closed", Session!writeReply(7, "v4", Session!Zero, 0))
      BY DEF Session!ServerRequest
    <3>2. QED
      BY <1>2, <2>1, <2>2, <3>1, NoBytes, ServerSends
<1>4. toServer' \in ByteSeq
  <2>1. toServer[4] \in Bytes!KnownTypes
    BY <1>1, FramedRequest DEF Session!ServerRequest
  <2>2. QED
    BY <1>2, <2>1, SessionBytes, HeaderSkipped DEF Session!ServerRequest, Session!Complete
<1>5. SessionTypes'
  BY <1>1, <1>2, <1>3, <1>4 DEF SessionInv, SessionTypes
<1>6. LetIn'
  BY <1>1, <1>2, <1>3 DEF SessionInv, LetIn
<1>7. GreetingFirst' /\ CredentialsNext'
  BY <1>1, <1>3 DEF SessionInv, GreetingFirst, CredentialsNext
<1>8. QED
  BY <1>5, <1>6, <1>7 DEF SessionInv

LEMMA EndsKeep ==
    ASSUME SessionInv, Session!ServerDial \/ Session!ServerEnds
    PROVE  SessionInv'
<1>1. UNCHANGED Session!config /\ UNCHANGED <<cpc, asked, toServer>>
  BY DEF Session!ServerDial, Session!ServerEnds
<1>2. /\ SetUp /\ SetUp' /\ auth' = auth /\ clientAuth' = clientAuth
      /\ toServer \in ByteSeq /\ toClient \in ByteSeq
      /\ spc' # "refused" => Session!RefusedForCause'
      /\ Match' <=> Match
  BY <1>1, ServerFrame
<1>3. CASE Session!ServerDial
  <2>1. /\ Session!writeReply(0, "v4", Session!HostBytes("v4"), 40000) \in ByteSeq
        /\ Session!writeReply(0, "v6", Session!HostBytes("v6"), 40000) \in ByteSeq
        /\ Session!writeReply(1, "v4", Session!Zero, 0) \in ByteSeq
    BY RepliesAre
  <2>2. spc = "dial" /\ spc' \in {"relay", "closed"} /\ toClient' \in ByteSeq
    <3>1. \/ Session!ServerGoes("relay", Session!writeReply(0, "v4", Session!HostBytes("v4"), 40000))
          \/ Session!ServerGoes("relay", Session!writeReply(0, "v6", Session!HostBytes("v6"), 40000))
          \/ Session!ServerGoes("closed", Session!writeReply(1, "v4", Session!Zero, 0))
      BY <1>3 DEF Session!ServerDial
    <3>2. spc = "dial"
      BY <1>3 DEF Session!ServerDial
    <3>3. QED
      BY <1>2, <2>1, <3>1, <3>2, ServerSends
  <2>3. QED
    BY <1>1, <1>2, <2>2
       DEF SessionInv, SessionTypes, LetIn, GreetingFirst, CredentialsNext
<1>4. CASE Session!ServerEnds
  <2>1. spc' = "closed" /\ toClient' = toClient /\ (spc = "refused" \/ cpc = "failed")
    BY <1>2, <1>4, Appended DEF Session!ServerEnds, Session!ServerGoes
  <2>2. cpc # "greet"
    BY <2>1 DEF SessionInv, GreetingFirst
  <2>3. QED
    BY <1>1, <1>2, <2>1, <2>2
       DEF SessionInv, SessionTypes, LetIn, GreetingFirst, CredentialsNext
<1>5. QED
  BY <1>3, <1>4

LEMMA SessionKept == SessionInv /\ [Session!Next]_(Session!vars) => SessionInv'
<1> SUFFICES ASSUME SessionInv, [Session!Next]_(Session!vars) PROVE SessionInv'
  OBVIOUS
<1>1. CASE Session!ClientCloses
  BY <1>1, SetUpKept
     DEF Session!ClientCloses, SessionInv, SessionTypes, GreetingFirst, CredentialsNext, LetIn
<1>2. CASE UNCHANGED Session!vars
  BY <1>2, SetUpKept
     DEF Session!vars, SessionInv, SessionTypes, GreetingFirst, CredentialsNext, LetIn
<1>3. QED
  BY <1>1, <1>2, ClientKeeps, RejectKeeps, GreetKeeps, AuthKeeps, RequestKeeps, EndsKeep
     DEF Session!Next, Session!ServerStep

(* Session!Next keeps SessionInv, which starts true and says who is let in. *)
LEMMA SessionInductive == Spec => []SessionInv
<1>1. Init => SessionInv
  BY PartsInit, SessionInitially
<1>2. SessionInv /\ [Next]_vars => SessionInv'
  BY PartsStep, SessionKept
<1>3. QED
  BY <1>1, <1>2, Steps, PTL

(* Nothing is dialled or associated for a client that has not sent the
   credentials configured, byte for byte, and whoever has them and can say them
   is let in: names and passwords are any sequences of bytes, of any length
   (verifyUsernamePassword, Dialer). *)
THEOREM CredentialsDecideCorrect == Spec => []CredentialsDecide
<1>1. SessionInv => CredentialsDecide
  BY DEF SessionInv, LetIn, Match, CredentialsDecide, Session!CredentialsDecide,
         Session!AuthBeforeRequest
<1>2. QED
  BY <1>1, SessionInductive, PTL

-----------------------------------------------------------------------------
(* A session: both ends agree on where each message ended.                   *)

(* s is a request or a reply of one address, and no more. *)
Whole(s, code, a) ==
    /\ s \in ByteSeq /\ Len(s) >= 5 /\ Len(s) >= Bytes!HeaderSize(s)
    /\ s[1] = 5 /\ s[2] = code /\ s[4] \in Bytes!KnownTypes /\ Bytes!Decoded(s) = a
    /\ Bytes!Drop(s, Bytes!HeaderSize(s)) = <<>>

LEMMA WholeRead ==
    ASSUME NEW h, NEW kind, NEW host, NEW p, Readable(h, kind, host, p, <<>>), h[1] = 5,
           NEW s, s = (h \o Bytes!Encoded(kind, host)) \o Bytes!Port16(p), s \in ByteSeq
    PROVE  Whole(s, h[2], Bytes!Address(kind, host, p))
<1> DEFINE q == Message(h, kind, host, p, <<>>)
           size == Size(kind, host)
<1>1. /\ q \in ByteSeq /\ Len(q) = size + Len(<<>>)
      /\ \A i \in 1..3 : q[i] = h[i]
      /\ q[4] = Bytes!AddrType[kind]
      /\ Bytes!HeaderSize(q) = size
      /\ Bytes!Decoded(q) = Bytes!Address(kind, host, p)
      /\ Bytes!Drop(q, size) = <<>>
  BY MessageRead
<1>2. q = s
  <2>1. s \o <<>> = s
    BY Appended
  <2>2. QED
    BY <2>1 DEF Message
<1>3. size \in Nat /\ size >= 5 /\ Len(<<>>) = 0
  <2>1. Fitted(kind, host)
    BY DEF Readable
  <2>2. QED
    BY <2>1, Numbers, NoBytes
<1> HIDE DEF q, size
<1>4. 1 \in 1..3 /\ 2 \in 1..3
  OBVIOUS
<1>5. Bytes!AddrType[kind] \in Bytes!KnownTypes
  BY Hosts, TypesKnown DEF Readable
<1>6. Len(q) = size /\ Len(q) >= 5 /\ Len(q) >= Bytes!HeaderSize(q)
  BY <1>1, <1>3
<1>7. q[1] = 5 /\ q[2] = h[2] /\ q[4] \in Bytes!KnownTypes
  BY <1>1, <1>4, <1>5
<1>8. QED
  BY <1>1, <1>2, <1>6, <1>7 DEF Whole

LEMMA RequestRead ==
    ASSUME SetUp, Session!Fits
    PROVE  Whole(Session!Request, command, target)
<1> DEFINE h == <<5, command, 0>>
           s == Session!Request
<1>1. /\ target.kind \in Kinds /\ target.bytes \in ByteSeq /\ target.port \in Nat
      /\ target = Bytes!Address(target.kind, target.bytes, target.port)
      /\ Len(target.bytes) <= 255 => Fitted(target.kind, target.bytes)
  BY TargetBytes DEF SetUp
<1>2. Fitted(target.kind, target.bytes) /\ target.port \in PortNumbers
  BY <1>1 DEF Session!Fits, PortNumbers
<1>3. Lead(h) /\ h[1] = 5 /\ h[2] = command
  <2>1. command \in Bytes!Byte
    BY SessionAssumption DEF SetUp, Bytes!Byte
  <2>2. QED
    BY <2>1, Digits DEF ByteSeq, Lead
<1>4. s \in ByteSeq
  BY RequestBytes
<1>5. s = (h \o Bytes!Encoded(target.kind, target.bytes)) \o Bytes!Port16(target.port)
  BY SessionBytes, SessionPort DEF Session!Request
<1> HIDE DEF h, s
<1>6. Readable(h, target.kind, target.bytes, target.port, <<>>)
  BY <1>2, <1>3, NoBytes DEF Readable
<1>7. Whole(s, h[2], Bytes!Address(target.kind, target.bytes, target.port))
  BY <1>3, <1>4, <1>5, <1>6, WholeRead
<1>8. QED
  BY <1>1, <1>3, <1>7 DEF s

LEMMA ReplyRead ==
    ASSUME NEW code \in {0, 1, 7}, NEW kind \in Kinds, NEW bytes \in ByteSeq, NEW p \in PortNumbers,
           Fitted(ReplyKind(kind), ReplyHost(kind, bytes))
    PROVE  Whole(Session!writeReply(code, kind, bytes, p), code,
                 Bytes!Address(ReplyKind(kind), ReplyHost(kind, bytes), p))
<1> DEFINE h == <<5, code, 0>>
           s == Session!writeReply(code, kind, bytes, p)
           k == ReplyKind(kind)
           b == ReplyHost(kind, bytes)
<1>1. p \in Nat
  BY DEF PortNumbers
<1>2. s \in ByteSeq
  BY <1>1, ReplyBytes
<1>3. Lead(h) /\ h[1] = 5 /\ h[2] = code
  <2>1. code \in Bytes!Byte
    BY Digits
  <2>2. QED
    BY <2>1, Digits DEF ByteSeq, Lead
<1>4. s = (h \o Bytes!Encoded(k, b)) \o Bytes!Port16(p)
  BY ReplyWritten
<1> HIDE DEF h, s, k, b
<1>5. Readable(h, k, b, p, <<>>)
  BY <1>3, NoBytes DEF Readable, k, b
<1>6. Whole(s, h[2], Bytes!Address(k, b, p))
  BY <1>2, <1>3, <1>4, <1>5, WholeRead
<1>7. QED
  BY <1>3, <1>6 DEF s, k, b

(* What is under way when all the client sends fits its fields, from the
   client's point of view: the answers it may read next.  After the greeting
   and the credentials SessionInv says the rest. *)
Error(code) == Session!writeReply(code, "v4", Session!Zero, 0)
Connected(kind) == Session!writeReply(0, kind, Session!HostBytes(kind), 40000)
Associated == Session!writeReply(0, publicHost, Session!HostBytes(publicHost), 1080)

MethodPhase ==
    cpc = "method" =>
        \/ spc \in {"greet", "auth"}
        \/ spc = "closed" /\ toClient = <<5, 255>>
        \/ spc = "request" /\ toServer = <<>> /\ toClient = <<5, 0>>

AuthPhase ==
    cpc = "auth" =>
        \/ spc = "auth"
        \/ spc \in {"refused", "closed"} /\ toClient = <<1, 1>>
        \/ spc = "request" /\ toClient = <<1, 0>> /\ toServer = <<>>

Served ==
    /\ spc = "dial" => command = 1 /\ toClient = <<>>
    /\ spc = "relay" => command = 1 /\ toClient \in {Connected("v4"), Connected("v6")}
    /\ spc = "associated" => command = 3 /\ toClient = Associated

ReplyPhase ==
    cpc = "reply" =>
        \/ spc = "request" /\ toClient = <<>> /\ toServer = Session!Request
        \/ spc = "closed" /\ toClient \in {Error(1), Error(7)}
        \/ spc \in {"dial", "relay", "associated"} /\ toServer = <<>> /\ asked = target /\ Served

OpenPhase ==
    cpc = "open" =>
        /\ spc \in {"relay", "associated"} /\ toServer = <<>> /\ toClient = <<>> /\ asked = target
        /\ spc = "relay" => command = 1
        /\ spc = "associated" => command = 3 /\ Session!PublicHostReturned

Phases == MethodPhase /\ AuthPhase /\ ReplyPhase /\ OpenPhase
PhaseInv == Session!Fits => Phases

LEMMA PhaseFrame ==
    ASSUME UNCHANGED Session!config
    PROVE  /\ Session!Fits' <=> Session!Fits
           /\ Session!Request' = Session!Request /\ Associated' = Associated
           /\ target' = target /\ command' = command /\ publicHost' = publicHost
BY DEF Session!config, Session!Fits, Session!Writable, Session!Request, Associated

LEMMA ErrorRead ==
    ASSUME NEW code \in {1, 7}
    PROVE  Error(code) \in ByteSeq /\ Error(code)[2] = code
<1>1. Fitted(ReplyKind("v4"), ReplyHost("v4", Bytes!Zero)) /\ Bytes!Zero \in ByteSeq /\ "v4" \in Kinds
  BY HostsFit, Hosts DEF ReplyKind, ReplyHost
<1>2. 0 \in PortNumbers
  BY DEF PortNumbers
<1>3. Whole(Session!writeReply(code, "v4", Bytes!Zero, 0), code,
            Bytes!Address(ReplyKind("v4"), ReplyHost("v4", Bytes!Zero), 0))
  BY <1>1, <1>2, ReplyRead
<1>4. QED
  BY <1>3, SessionBytes DEF Whole, Error

LEMMA ConnectedRead ==
    ASSUME NEW kind \in {"v4", "v6"}
    PROVE  \E a : Whole(Connected(kind), 0, a)
<1>1. /\ Fitted(ReplyKind(kind), ReplyHost(kind, Bytes!HostBytes(kind)))
      /\ Bytes!HostBytes(kind) \in ByteSeq /\ kind \in Kinds
  BY HostsFit, Hosts DEF ReplyKind, ReplyHost
<1>2. 40000 \in PortNumbers
  BY DEF PortNumbers
<1>3. Whole(Session!writeReply(0, kind, Bytes!HostBytes(kind), 40000), 0,
            Bytes!Address(ReplyKind(kind), ReplyHost(kind, Bytes!HostBytes(kind)), 40000))
  BY <1>1, <1>2, ReplyRead
<1>4. QED
  BY <1>3, SessionBytes DEF Connected

(* The host is the public one, if that is an address. *)
LEMMA AssociatedRead ==
    ASSUME SetUp
    PROVE  \E a : /\ Whole(Associated, 0, a)
                  /\ publicHost # "name" => a.kind = publicHost /\ a.bytes = Session!HostBytes(publicHost)
<1> DEFINE k == ReplyKind(publicHost)
           b == ReplyHost(publicHost, Bytes!HostBytes(publicHost))
<1>1. publicHost \in Kinds
  BY SessionAssumption DEF SetUp, Kinds
<1>2. Bytes!HostBytes(publicHost) \in ByteSeq
  BY <1>1, HostKinds
<1>3. Fitted(k, b)
  BY <1>1, HostsFit DEF ReplyKind, ReplyHost, Kinds
<1>4. 1080 \in PortNumbers
  BY DEF PortNumbers
<1>5. publicHost # "name" => k = publicHost /\ b = Bytes!HostBytes(publicHost)
  BY DEF ReplyKind, ReplyHost
<1>6. Whole(Session!writeReply(0, publicHost, Bytes!HostBytes(publicHost), 1080), 0,
            Bytes!Address(k, b, 1080))
  BY <1>1, <1>2, <1>3, <1>4, ReplyRead
<1> HIDE DEF k, b
<1>7. Bytes!Address(k, b, 1080).kind = k /\ Bytes!Address(k, b, 1080).bytes = b
  BY AddressFields
<1>8. QED
  BY <1>5, <1>6, <1>7, SessionBytes DEF Associated

LEMMA RequestSize == SetUp /\ Session!Fits => Session!Request \in ByteSeq /\ Session!Request # <<>>
<1> SUFFICES ASSUME SetUp, Session!Fits PROVE Session!Request \in ByteSeq /\ Session!Request # <<>>
  OBVIOUS
<1>1. Session!Request \in ByteSeq /\ Len(Session!Request) >= 5
  BY RequestRead DEF Whole
<1>2. QED
  BY <1>1, NoBytes

LEMMA MethodPhases ==
    ASSUME SessionInv, Session!Fits, Phases, Session!ClientMethod
    PROVE  Phases'
<1>1. /\ UNCHANGED Session!config /\ UNCHANGED <<spc, asked>> /\ cpc = "method"
      /\ Len(toClient) >= 2 /\ toClient' = Session!Drop(toClient, 2)
  BY DEF Session!ClientMethod
<1>2. SetUp /\ Session!Request' = Session!Request
  BY <1>1, PhaseFrame DEF SessionInv, SessionTypes
<1>3. \/ cpc' = "failed"
      \/ toClient[2] = 0 /\ clientAuth = NoAuth /\ cpc' = "reply" /\ toServer' = toServer \o Session!Request
      \/ toClient[2] = 2 /\ cpc' = "auth"
  BY DEF Session!ClientMethod, Session!ClientGoes, Session!AnswerIs
<1>4. spc # "greet" /\ (spc = "auth" => toClient = <<5, 2>>)
  BY <1>1, NoBytes DEF SessionInv, GreetingFirst, CredentialsNext
<1>5. \/ spc = "auth" /\ toClient[2] = 2
      \/ toClient[2] = 255
      \/ spc = "request" /\ toServer = <<>> /\ toClient = <<5, 0>>
  BY <1>1, <1>4 DEF Phases, MethodPhase
<1>6. CASE cpc' = "failed"
  BY <1>6 DEF Phases, MethodPhase, AuthPhase, ReplyPhase, OpenPhase
<1>7. CASE toClient[2] = 0 /\ cpc' = "reply" /\ toServer' = toServer \o Session!Request
  <2>1. spc = "request" /\ toServer = <<>> /\ toClient = <<5, 0>>
    BY <1>5, <1>7
  <2>2. toServer' = Session!Request
    BY <1>2, <1>7, <2>1, RequestBytes, Appended
  <2>3. toClient' = <<>>
    <3>1. <<5, 0>> \in ByteSeq /\ Len(<<5, 0>>) = 2
      BY ShortReplies
    <3>2. QED
      BY <1>1, <2>1, <3>1, AllSkipped DEF Session!Drop
  <2>4. QED
    BY <1>1, <1>2, <1>7, <2>1, <2>2, <2>3 DEF Phases, MethodPhase, AuthPhase, ReplyPhase, OpenPhase
<1>8. CASE toClient[2] = 2 /\ cpc' = "auth"
  <2>1. spc = "auth"
    BY <1>5, <1>8
  <2>2. QED
    BY <1>1, <1>8, <2>1 DEF Phases, MethodPhase, AuthPhase, ReplyPhase, OpenPhase
<1>9. QED
  BY <1>3, <1>6, <1>7, <1>8

LEMMA AuthPhases ==
    ASSUME SessionInv, Session!Fits, Phases, Session!ClientAuth
    PROVE  Phases'
<1>1. /\ UNCHANGED Session!config /\ UNCHANGED <<spc, asked>> /\ cpc = "auth"
      /\ Len(toClient) >= 2 /\ toClient' = Session!Drop(toClient, 2)
  BY DEF Session!ClientAuth
<1>2. SetUp /\ toServer \in ByteSeq /\ Session!Request' = Session!Request
  BY <1>1, PhaseFrame DEF SessionInv, SessionTypes
<1>3. \/ cpc' = "failed"
      \/ toClient[2] = 0 /\ cpc' = "reply" /\ toServer' = toServer \o Session!Request
  BY DEF Session!ClientAuth, Session!ClientGoes, Session!AnswerIs
<1>4. spc # "auth"
  BY <1>1, NoBytes DEF SessionInv, CredentialsNext
<1>5. \/ toClient = <<1, 1>>
      \/ spc = "request" /\ toClient = <<1, 0>> /\ toServer = <<>>
  BY <1>1, <1>4 DEF Phases, AuthPhase
<1>6. CASE cpc' = "failed"
  BY <1>6 DEF Phases, MethodPhase, AuthPhase, ReplyPhase, OpenPhase
<1>7. CASE toClient[2] = 0 /\ cpc' = "reply" /\ toServer' = toServer \o Session!Request
  <2>1. spc = "request" /\ toClient = <<1, 0>> /\ toServer = <<>>
    BY <1>5, <1>7
  <2>2. toServer' = Session!Request
    BY <1>2, <1>7, <2>1, RequestBytes, Appended
  <2>3. toClient' = <<>>
    <3>1. <<1, 0>> \in ByteSeq /\ Len(<<1, 0>>) = 2
      BY ShortReplies
    <3>2. QED
      BY <1>1, <2>1, <3>1, AllSkipped DEF Session!Drop
  <2>4. QED
    BY <1>1, <1>2, <1>7, <2>1, <2>2, <2>3 DEF Phases, MethodPhase, AuthPhase, ReplyPhase, OpenPhase
<1>8. QED
  BY <1>3, <1>6, <1>7

LEMMA ReplyPhases ==
    ASSUME SessionInv, Session!Fits, Phases, Session!ClientReply
    PROVE  Phases'
<1>1. /\ UNCHANGED Session!config /\ UNCHANGED <<spc, asked>> /\ cpc = "reply" /\ Len(toClient) >= 4
      /\ SetUp /\ toServer \in ByteSeq
  BY DEF Session!ClientReply, SessionInv, SessionTypes
<1>2. target' = target /\ command' = command /\ publicHost' = publicHost
  BY <1>1, PhaseFrame
<1>3. \/ cpc' = "failed"
      \/ /\ toClient[2] = 0 /\ cpc' = "open" /\ toServer' = toServer \o <<>>
         /\ toClient' = Session!Drop(toClient, Session!HeaderSize(toClient))
         /\ bound' = Session!Decoded(toClient)
  BY DEF Session!ClientReply, Session!ClientGoes, Session!AnswerIs
<1>4. CASE cpc' = "failed"
  BY <1>4 DEF Phases, MethodPhase, AuthPhase, ReplyPhase, OpenPhase
<1>5. CASE /\ toClient[2] = 0 /\ cpc' = "open" /\ toServer' = toServer \o <<>>
           /\ toClient' = Session!Drop(toClient, Session!HeaderSize(toClient))
           /\ bound' = Session!Decoded(toClient)
  <2>1. spc \in {"relay", "associated"} /\ toServer = <<>> /\ asked = target /\ Served
    <3>1. toClient # <<>>
      BY <1>1, NoBytes
    <3>2. toClient \notin {Error(1), Error(7)}
      BY <1>5, ErrorRead
    <3>3. QED
      BY <1>1, <3>1, <3>2 DEF Phases, ReplyPhase, Served
  <2>2. PICK a : /\ Whole(toClient, 0, a)
                 /\ spc = "associated" /\ publicHost # "name" =>
                      a.kind = publicHost /\ a.bytes = Session!HostBytes(publicHost)
    <3>1. CASE spc = "relay"
      BY <2>1, <3>1, ConnectedRead DEF Served
    <3>2. CASE spc = "associated"
      BY <1>1, <2>1, <3>2, AssociatedRead DEF Served
    <3>3. QED
      BY <2>1, <3>1, <3>2
  <2>3. toClient' = <<>> /\ bound' = a
    BY <1>5, <2>2, SessionBytes DEF Whole
  <2>4. toServer' = <<>>
    BY <1>1, <1>5, <2>1, Appended
  <2>5. spc = "associated" => Session!PublicHostReturned'
    <3>1. Session!HostBytes(publicHost)' = Session!HostBytes(publicHost)
      BY <1>2
    <3>2. QED
      BY <1>2, <2>2, <2>3, <3>1 DEF Session!PublicHostReturned
  <2>6. QED
    BY <1>1, <1>2, <1>5, <2>1, <2>3, <2>4, <2>5
       DEF Phases, MethodPhase, AuthPhase, ReplyPhase, OpenPhase, Served
<1>6. QED
  BY <1>3, <1>4, <1>5

LEMMA ClientPhases ==
    ASSUME SessionInv, Session!Fits, Phases,
           Session!ClientGreet \/ Session!ClientFails \/ Session!ClientCloses
    PROVE  Phases'
<1>1. /\ UNCHANGED Session!config /\ UNCHANGED spc
      /\ cpc' = "failed" \/ (cpc = "greet" /\ cpc' = "method")
  BY DEF Session!ClientGreet, Session!ClientGoes, Session!ClientFails, Session!ClientCloses
<1>2. cpc = "greet" => spc = "greet"
  BY DEF SessionInv, GreetingFirst
<1>3. QED
  BY <1>1, <1>2 DEF Phases, MethodPhase, AuthPhase, ReplyPhase, OpenPhase

LEMMA GreetPhases ==
    ASSUME SessionInv, Session!Fits, Phases, Session!ServerGreet
    PROVE  Phases'
<1>1. UNCHANGED cpc
  BY DEF Session!ServerGreet
<1>2. /\ cpc \in {"method", "failed"} /\ toServer' = <<>>
      /\ \/ spc' = "closed" /\ toClient' = <<5, 255>>
         \/ spc' = "request" /\ toClient' = <<5, 0>>
         \/ spc' = "auth"
  BY GreetAnswers
<1>3. QED
  BY <1>1, <1>2 DEF Phases, MethodPhase, AuthPhase, ReplyPhase, OpenPhase

LEMMA VerifyPhases ==
    ASSUME SessionInv, Session!Fits, Phases, Session!ServerAuth
    PROVE  Phases'
<1>1. UNCHANGED Session!config /\ UNCHANGED cpc /\ SetUp
  BY DEF Session!ServerAuth, SessionInv, SessionTypes
<1>2. /\ cpc \in {"auth", "failed"} /\ (cpc = "auth" => toClient = <<>>)
      /\ \/ Session!Accepts(UserOf(toServer), PassOf(toServer))
              /\ spc' = "request" /\ toClient' = toClient \o <<1, 0>>
         \/ spc' = "refused" /\ toClient' = toClient \o <<1, 1>>
  BY AuthAnswers
<1>3. toServer' = <<>>
  <2>1. /\ auth # NoAuth /\ clientAuth # NoAuth
        /\ toServer = Session!Credentials(clientAuth)
        /\ Len(toServer) >= ReadSize(toServer)
        /\ toServer' = Session!Drop(toServer, ReadSize(toServer))
    BY AuthAnswers
  <2>2. auth \in Session!Auths /\ clientAuth \in Session!Auths
    BY <1>1 DEF SetUp
  <2>3. Session!Writable(clientAuth)
    BY <2>1 DEF Session!Fits
  <2>4. ReadSize(toServer) = Len(toServer)
    BY <2>1, <2>2, <2>3, CredentialsChecked
  <2>5. toServer \in ByteSeq
    BY DEF SessionInv, SessionTypes
  <2>6. QED
    BY <2>1, <2>4, <2>5, AllSkipped DEF Session!Drop
<1>4. cpc = "auth" => toClient' \in {<<1, 0>>, <<1, 1>>} /\ (spc' = "request" <=> toClient' = <<1, 0>>)
  <2>1. <<>> \o <<1, 0>> = <<1, 0>> /\ <<>> \o <<1, 1>> = <<1, 1>>
    BY ShortReplies, Appended
  <2>2. <<1, 0>> # <<1, 1>>
    OBVIOUS
  <2>3. QED
    BY <1>2, <2>1, <2>2
<1>5. cpc = "auth" =>
        \/ spc' = "refused" /\ toClient' = <<1, 1>>
        \/ spc' = "request" /\ toClient' = <<1, 0>> /\ toServer' = <<>>
  BY <1>2, <1>3, <1>4
<1>6. QED
  BY <1>1, <1>2, <1>5 DEF Phases, MethodPhase, AuthPhase, ReplyPhase, OpenPhase

(* What readRequest is answered with. *)
LEMMA RequestAnswers ==
    ASSUME SessionInv, Session!ServerRequest
    PROVE  /\ toServer # <<>> /\ asked' = Bytes!Decoded(toServer)
           /\ toServer' = Bytes!Drop(toServer, Bytes!HeaderSize(toServer))
           /\ \/ toServer[2] = 1 /\ spc' = "dial" /\ toClient' = toClient
              \/ toServer[2] = 3 /\ spc' = "associated" /\ toClient' = toClient \o Associated
              \/ spc' = "closed" /\ toClient' = toClient \o Error(7)
<1>1. toClient \in ByteSeq /\ toClient \o <<>> = toClient
  BY Appended DEF SessionInv, SessionTypes
<1>2. toServer # <<>>
  BY NoBytes DEF Session!ServerRequest, Session!Complete
<1>3. asked' = Bytes!Decoded(toServer) /\ toServer' = Bytes!Drop(toServer, Bytes!HeaderSize(toServer))
  BY SessionBytes DEF Session!ServerRequest
<1>4. \/ toServer[2] = 1 /\ Session!ServerGoes("dial", <<>>)
      \/ toServer[2] = 3 /\ Session!ServerGoes("associated", Associated)
      \/ Session!ServerGoes("closed", Error(7))
  BY DEF Session!ServerRequest, Associated, Error
<1>5. QED
  BY <1>1, <1>2, <1>3, <1>4 DEF Session!ServerGoes

LEMMA RequestPhases ==
    ASSUME SessionInv, Session!Fits, Phases, Session!ServerRequest
    PROVE  Phases'
<1>1. UNCHANGED Session!config /\ UNCHANGED cpc /\ spc = "request" /\ SetUp /\ toClient \in ByteSeq
  BY DEF Session!ServerRequest, SessionInv, SessionTypes
<1>2. /\ Associated' = Associated /\ target' = target /\ command' = command
      /\ \A code : Error(code)' = Error(code)
  BY <1>1, PhaseFrame DEF Error
<1>3. /\ toServer # <<>> /\ asked' = Bytes!Decoded(toServer)
      /\ toServer' = Bytes!Drop(toServer, Bytes!HeaderSize(toServer))
      /\ \/ toServer[2] = 1 /\ spc' = "dial" /\ toClient' = toClient
         \/ toServer[2] = 3 /\ spc' = "associated" /\ toClient' = toClient \o Associated
         \/ spc' = "closed" /\ toClient' = toClient \o Error(7)
  BY RequestAnswers
<1>4. cpc # "method" /\ cpc # "open" /\ cpc # "auth"
  BY <1>1, <1>3 DEF Phases, MethodPhase, AuthPhase, OpenPhase
<1>5. Error(7) \in ByteSeq /\ <<>> \o Error(7) = Error(7)
  BY ErrorRead, Appended
<1>6. CASE cpc = "reply"
  <2>1. toClient = <<>> /\ toServer = Session!Request
    BY <1>1, <1>6 DEF Phases, ReplyPhase
  <2>2. toServer[2] = command /\ asked' = target /\ toServer' = <<>>
    <3>1. Whole(toServer, command, target)
      BY <1>1, <2>1, RequestRead
    <3>2. QED
      BY <1>3, <3>1 DEF Whole
  <2>3. <<>> \o Associated = Associated
    <3>1. \E a : Whole(Associated, 0, a)
      BY <1>1, AssociatedRead
    <3>2. Associated \in ByteSeq
      BY <3>1 DEF Whole
    <3>3. QED
      BY <3>2, Appended
  <2>4. \/ command = 1 /\ spc' = "dial" /\ toClient' = <<>>
        \/ command = 3 /\ spc' = "associated" /\ toClient' = Associated
        \/ spc' = "closed" /\ toClient' = Error(7)
    BY <1>3, <1>5, <2>1, <2>2, <2>3
  <2>5. QED
    BY <1>1, <1>2, <1>6, <2>2, <2>4 DEF Phases, MethodPhase, AuthPhase, ReplyPhase, OpenPhase, Served
<1>7. CASE cpc # "reply"
  BY <1>1, <1>4, <1>7 DEF Phases, MethodPhase, AuthPhase, ReplyPhase, OpenPhase
<1>8. QED
  BY <1>6, <1>7

LEMMA DialPhases ==
    ASSUME SessionInv, Session!Fits, Phases, Session!ServerDial
    PROVE  Phases'
<1>1. UNCHANGED Session!config /\ UNCHANGED <<cpc, toServer, asked>> /\ spc = "dial"
  BY DEF Session!ServerDial
<1>2. /\ target' = target /\ command' = command
      /\ \A code : Error(code)' = Error(code)
      /\ \A kind : Connected(kind)' = Connected(kind)
  BY <1>1, PhaseFrame DEF Error, Connected
<1>3. \/ \E kind \in {"v4", "v6"} : spc' = "relay" /\ toClient' = toClient \o Connected(kind)
      \/ spc' = "closed" /\ toClient' = toClient \o Error(1)
  BY DEF Session!ServerDial, Session!ServerGoes, Connected, Error
<1>4. /\ <<>> \o Error(1) = Error(1)
      /\ \A kind \in {"v4", "v6"} : <<>> \o Connected(kind) = Connected(kind)
  <2>1. Error(1) \in ByteSeq
    BY ErrorRead
  <2>2. \A kind \in {"v4", "v6"} : Connected(kind) \in ByteSeq
    BY ConnectedRead DEF Whole
  <2>3. QED
    BY <2>1, <2>2, Appended
<1>5. CASE cpc = "reply"
  <2>1. toClient = <<>> /\ toServer = <<>> /\ asked = target /\ command = 1
    BY <1>1, <1>5 DEF Phases, ReplyPhase, Served
  <2>2. \/ spc' = "relay" /\ toClient' \in {Connected("v4"), Connected("v6")}
        \/ spc' = "closed" /\ toClient' = Error(1)
    BY <1>3, <1>4, <2>1
  <2>3. QED
    BY <1>1, <1>2, <1>5, <2>1, <2>2 DEF Phases, MethodPhase, AuthPhase, ReplyPhase, OpenPhase, Served
<1>6. CASE cpc # "reply"
  <2>1. cpc \notin {"method", "auth", "open"}
    BY <1>1 DEF Phases, MethodPhase, AuthPhase, OpenPhase
  <2>2. QED
    BY <1>1, <1>6, <2>1 DEF Phases, MethodPhase, AuthPhase, ReplyPhase, OpenPhase
<1>7. QED
  BY <1>5, <1>6

LEMMA EndPhases ==
    ASSUME SessionInv, Session!Fits, Phases, Session!ServerEnds
    PROVE  Phases'
<1>1. /\ UNCHANGED cpc /\ spc' = "closed" /\ toClient' = toClient
      /\ spc = "refused" \/ cpc = "failed"
  BY Appended DEF Session!ServerEnds, Session!ServerGoes, SessionInv, SessionTypes
<1>2. cpc \notin {"method", "reply", "open"} /\ (cpc = "auth" => toClient = <<1, 1>>)
  BY <1>1 DEF Phases, MethodPhase, AuthPhase, ReplyPhase, OpenPhase
<1>3. QED
  BY <1>1, <1>2 DEF Phases, MethodPhase, AuthPhase, ReplyPhase, OpenPhase

(* What a client sends that fits is framed as the server expects it. *)
LEMMA RejectPhases ==
    ASSUME SessionInv, Session!Fits, Phases, Session!ServerRejects
    PROVE  Phases'
<1>1. /\ spc \in {"greet", "auth", "request"} /\ Len(toServer) >= 1 /\ SetUp
      /\ spc' = "closed" /\ UNCHANGED cpc
  BY Rejection DEF SessionInv, SessionTypes
<1>2. toServer # <<>>
  BY <1>1, NoBytes
<1>3. Session!Misframed
  BY DEF Session!ServerRejects
<1>4. spc # "greet"
  <2>1. SUFFICES ASSUME spc = "greet" PROVE FALSE
    OBVIOUS
  <2>2. toServer[1] = 5
    BY <1>2, <2>1 DEF SessionInv, GreetingFirst, Greeting
  <2>3. QED
    BY <1>3, <2>1, <2>2 DEF Session!Misframed, Session!VersionOf
<1>5. spc # "auth"
  <2>1. SUFFICES ASSUME spc = "auth" PROVE FALSE
    OBVIOUS
  <2>2. clientAuth # NoAuth /\ toServer = Session!Credentials(clientAuth)
    BY <1>2, <2>1 DEF SessionInv, CredentialsNext
  <2>3. toServer[1] = 1
    BY <1>1, <2>2, CredentialsRead DEF SetUp
  <2>4. QED
    BY <1>3, <2>1, <2>3 DEF Session!Misframed, Session!VersionOf
<1>6. toServer # Session!Request
  <2>1. SUFFICES ASSUME toServer = Session!Request PROVE FALSE
    OBVIOUS
  <2>2. toServer[1] = 5 /\ toServer[4] \in Session!KnownTypes
    BY <1>1, <2>1, RequestRead, SessionBytes DEF Whole
  <2>3. QED
    BY <1>1, <1>3, <1>4, <1>5, <2>2 DEF Session!Misframed, Session!VersionOf
<1>7. cpc \notin {"method", "auth", "reply", "open"}
  BY <1>1, <1>2, <1>4, <1>5, <1>6 DEF Phases, MethodPhase, AuthPhase, ReplyPhase, OpenPhase
<1>8. QED
  BY <1>1, <1>7 DEF Phases, MethodPhase, AuthPhase, ReplyPhase, OpenPhase

LEMMA PhaseStays ==
    ASSUME UNCHANGED Session!vars, Phases
    PROVE  Phases'
<1>1. /\ UNCHANGED Session!config /\ UNCHANGED <<toServer, toClient, cpc, spc, asked, bound>>
      /\ Session!Request' = Session!Request /\ Associated' = Associated
      /\ target' = target /\ command' = command /\ publicHost' = publicHost
  BY PhaseFrame DEF Session!vars
<1>2. /\ \A code : Error(code)' = Error(code)
      /\ \A kind : Connected(kind)' = Connected(kind)
  BY DEF Error, Connected
<1>3. MethodPhase'
  BY <1>1 DEF Phases, MethodPhase
<1>4. AuthPhase'
  BY <1>1 DEF Phases, AuthPhase
<1>5. ReplyPhase'
  BY <1>1, <1>2 DEF Phases, ReplyPhase, Served
<1>6. OpenPhase'
  <2>1. Session!PublicHostReturned' <=> Session!PublicHostReturned
    BY <1>1 DEF Session!PublicHostReturned
  <2>2. QED
    BY <1>1, <2>1 DEF Phases, OpenPhase
<1>7. QED
  BY <1>3, <1>4, <1>5, <1>6 DEF Phases

LEMMA PhaseKept ==
    ASSUME SessionInv, PhaseInv, [Session!Next]_Session!vars
    PROVE  PhaseInv'
<1>1. UNCHANGED Session!config
  BY DEF Session!Next, Session!ClientStep, Session!ServerStep, Session!ClientGreet,
         Session!ClientMethod, Session!ClientAuth, Session!ClientReply, Session!ClientFails,
         Session!ClientCloses, Session!ServerRejects, Session!ServerGreet, Session!ServerAuth, Session!ServerRequest,
         Session!ServerDial, Session!ServerEnds, Session!vars
<1>2. SUFFICES ASSUME Session!Fits, Phases PROVE Phases'
  BY <1>1, PhaseFrame DEF PhaseInv
<1>3. CASE UNCHANGED Session!vars
  BY <1>2, <1>3, PhaseStays
<1>4. CASE Session!Next
  BY <1>2, <1>4, ClientPhases, MethodPhases, AuthPhases, ReplyPhases, RejectPhases, GreetPhases,
     VerifyPhases, RequestPhases, DialPhases, EndPhases
     DEF Session!Next, Session!ClientStep, Session!ServerStep
<1>5. QED
  BY <1>3, <1>4

LEMMA PhaseInductive == Spec => []PhaseInv
<1>1. Init => PhaseInv
  <2>1. Session!Init => PhaseInv
    BY DEF Session!Init, PhaseInv, Phases, MethodPhase, AuthPhase, ReplyPhase, OpenPhase
  <2>2. QED
    BY <2>1, PartsInit
<1>2. SessionInv /\ PhaseInv /\ [Next]_vars => PhaseInv'
  BY PartsStep, PhaseKept
<1>3. QED
  BY <1>1, <1>2, SessionInductive, Steps, PTL

(* The connection Dialer.DialContext returns is one to the address that was
   asked for, or an association, and its stream starts with the first byte of
   the peer: handleConn and the Dialer agree on where each message ended, as
   long as the client's credentials and the target fit their fields. *)
THEOREM DialerAgreesCorrect == Spec => []DialerAgrees
<1>1. PhaseInv => DialerAgrees
  BY DEF PhaseInv, Phases, OpenPhase, DialerAgrees, Session!DialerAgrees
<1>2. QED
  BY <1>1, PhaseInductive, PTL
-----------------------------------------------------------------------------
(* The relay of a CONNECT.                                                  *)

(* A copy ends with nothing left to pass on, or after a reset, unless the
   session was closed before. *)
CopyEnded ==
    \A d \in Tunnel!Directions :
        /\ copy[d] = "eof" => d \in fin /\ passed[d] = sent[d]
        /\ session = "open" /\ copy[d] = "error" => d \in broken \/ Tunnel!Other(d) \in broken

RelayInv ==
    /\ Tunnel!TypeOK /\ CopyEnded /\ LossExplained
    /\ session = "closed" => first # {}

LEMMA OtherDirection == \A d \in Tunnel!Directions : Tunnel!Other(d) \in Tunnel!Directions
BY DEF Tunnel!Directions, Tunnel!Other

LEMMA RelayInit == Tunnel!Init => RelayInv
<1> SUFFICES ASSUME Tunnel!Init PROVE RelayInv
  OBVIOUS
<1>1. sent \in [Tunnel!Directions -> 0..MaxChunks]
  BY RelayAssumption DEF Tunnel!Init
<1>2. \A d \in Tunnel!Directions : sent[d] = 0
  BY DEF Tunnel!Init
<1>3. Tunnel!TypeOK
  BY <1>1, <1>2 DEF Tunnel!Init, Tunnel!TypeOK
<1>4. QED
  BY <1>3 DEF Tunnel!Init, RelayInv, CopyEnded, LossExplained, Tunnel!LossExplained

(* The counters of one direction, as plain numbers. *)
LEMMA Counters ==
    ASSUME Tunnel!TypeOK, NEW d \in Tunnel!Directions
    PROVE  /\ {sent[d], read[d], passed[d], got[d], MaxChunks} \subseteq Nat
           /\ got[d] <= passed[d] /\ passed[d] <= read[d] /\ read[d] <= sent[d]
           /\ sent[d] <= MaxChunks /\ read[d] <= passed[d] + 1
BY RelayAssumption DEF Tunnel!TypeOK

LEMMA RelayTypes == Tunnel!TypeOK /\ [Tunnel!Next]_(Tunnel!vars) => Tunnel!TypeOK'
<1> SUFFICES ASSUME Tunnel!TypeOK, [Tunnel!Next]_(Tunnel!vars) PROVE Tunnel!TypeOK'
  OBVIOUS
<1> USE DEF Tunnel!peers, Tunnel!copies
<1>1. ASSUME NEW d \in Tunnel!Directions, Tunnel!Send(d) PROVE Tunnel!TypeOK'
  <2>1. sent[d] + 1 \in 0..MaxChunks
    BY <1>1, Counters DEF Tunnel!Send
  <2>2. sent' \in [Tunnel!Directions -> 0..MaxChunks]
    BY <1>1, <2>1 DEF Tunnel!Send, Tunnel!TypeOK
  <2>3. \A e \in Tunnel!Directions : read[e] <= sent'[e]
    BY <1>1, Counters DEF Tunnel!Send, Tunnel!TypeOK
  <2>4. QED
    BY <1>1, <2>2, <2>3 DEF Tunnel!Send, Tunnel!TypeOK
<1>2. ASSUME NEW d \in Tunnel!Directions, Tunnel!Finish(d) \/ Tunnel!Break(d) PROVE Tunnel!TypeOK'
  BY <1>2, OtherDirection DEF Tunnel!Finish, Tunnel!Break, Tunnel!TypeOK
<1>3. ASSUME NEW d \in Tunnel!Directions, Tunnel!Receive(d) PROVE Tunnel!TypeOK'
  <2>1. got[d] + 1 \in 0..MaxChunks
    BY <1>3, Counters DEF Tunnel!Receive
  <2>2. got' \in [Tunnel!Directions -> 0..MaxChunks]
    BY <1>3, <2>1 DEF Tunnel!Receive, Tunnel!TypeOK
  <2>3. \A e \in Tunnel!Directions : got'[e] <= passed[e]
    BY <1>3, Counters DEF Tunnel!Receive, Tunnel!TypeOK
  <2>4. QED
    BY <1>3, <2>2, <2>3 DEF Tunnel!Receive, Tunnel!TypeOK
<1>4. ASSUME NEW d \in Tunnel!Directions, Tunnel!CopyRead(d) PROVE Tunnel!TypeOK'
  <2>1. read[d] + 1 \in 0..MaxChunks
    BY <1>4, Counters DEF Tunnel!CopyRead
  <2>2. read' \in [Tunnel!Directions -> 0..MaxChunks]
    BY <1>4, <2>1 DEF Tunnel!CopyRead, Tunnel!TypeOK
  <2>3. \A e \in Tunnel!Directions :
            passed[e] <= read'[e] /\ read'[e] <= sent[e] /\ read'[e] <= passed[e] + 1
    BY <1>4, Counters DEF Tunnel!CopyRead, Tunnel!TypeOK
  <2>4. QED
    BY <1>4, <2>2, <2>3 DEF Tunnel!CopyRead, Tunnel!TypeOK
<1>5. ASSUME NEW d \in Tunnel!Directions, Tunnel!CopyWrite(d) PROVE Tunnel!TypeOK'
  <2>1. passed[d] + 1 \in 0..MaxChunks
    BY <1>5, Counters DEF Tunnel!CopyWrite
  <2>2. passed' \in [Tunnel!Directions -> 0..MaxChunks]
    BY <1>5, <2>1 DEF Tunnel!CopyWrite, Tunnel!TypeOK
  <2>3. \A e \in Tunnel!Directions :
            got[e] <= passed'[e] /\ passed'[e] <= read[e] /\ read[e] <= passed'[e] + 1
    BY <1>5, Counters DEF Tunnel!CopyWrite, Tunnel!TypeOK
  <2>4. QED
    BY <1>5, <2>2, <2>3 DEF Tunnel!CopyWrite, Tunnel!TypeOK
<1>6. ASSUME NEW d \in Tunnel!Directions, Tunnel!CopyEOF(d) \/ Tunnel!CopyFails(d) PROVE Tunnel!TypeOK'
  BY <1>6 DEF Tunnel!CopyEOF, Tunnel!CopyFails, Tunnel!TypeOK
<1>7. CASE Tunnel!Close
  BY <1>7 DEF Tunnel!Close, Tunnel!TypeOK
<1>8. CASE UNCHANGED Tunnel!vars
  BY <1>8 DEF Tunnel!vars, Tunnel!TypeOK
<1>9. QED
  BY <1>1, <1>2, <1>3, <1>4, <1>5, <1>6, <1>7, <1>8 DEF Tunnel!Next, Tunnel!CopyStep

LEMMA RelayKeeps == RelayInv /\ [Tunnel!Next]_(Tunnel!vars) => RelayInv'
<1> SUFFICES ASSUME RelayInv, [Tunnel!Next]_(Tunnel!vars) PROVE RelayInv'
  OBVIOUS
<1>0. Tunnel!TypeOK'
  BY RelayTypes DEF RelayInv
<1>1. Tunnel!TypeOK /\ \A d \in Tunnel!Directions : passed[d] \in Nat /\ sent[d] \in Nat
  BY Counters DEF RelayInv
<1> USE DEF RelayInv, CopyEnded, LossExplained, Tunnel!LossExplained, Tunnel!peers, Tunnel!copies
<1>2. ASSUME NEW d \in Tunnel!Directions, Tunnel!Send(d) PROVE RelayInv'
  <2>1. UNCHANGED <<got, fin, broken, read, passed, copy, first, session, lost>> /\ session = "open"
    BY <1>2 DEF Tunnel!Send
  <2>2. \A e \in Tunnel!Directions : copy[e] = "eof" => sent'[e] = sent[e]
    BY <1>1, <1>2 DEF Tunnel!Send, Tunnel!TypeOK
  <2>3. QED
    BY <1>0, <2>1, <2>2
<1>3. ASSUME NEW d \in Tunnel!Directions, Tunnel!Finish(d) \/ Tunnel!Break(d) \/ Tunnel!Receive(d)
      PROVE  RelayInv'
  BY <1>0, <1>3 DEF Tunnel!Finish, Tunnel!Break, Tunnel!Receive
<1>4. ASSUME NEW d \in Tunnel!Directions, Tunnel!CopyRead(d) PROVE RelayInv'
  BY <1>0, <1>4 DEF Tunnel!CopyRead
<1>5. ASSUME NEW d \in Tunnel!Directions, Tunnel!CopyWrite(d) PROVE RelayInv'
  <2>1. UNCHANGED <<sent, fin, broken, copy, first, session>> /\ session = "open" /\ copy[d] = "runs"
    BY <1>5 DEF Tunnel!CopyWrite
  <2>2. \A e \in Tunnel!Directions : copy[e] = "eof" => passed'[e] = passed[e]
    BY <1>1, <1>5, <2>1 DEF Tunnel!CopyWrite, Tunnel!TypeOK
  <2>3. QED
    BY <1>0, <2>1, <2>2
<1>6. ASSUME NEW d \in Tunnel!Directions, Tunnel!CopyEOF(d) PROVE RelayInv'
  BY <1>0, <1>1, <1>6 DEF Tunnel!CopyEOF, Tunnel!TypeOK
<1>7. ASSUME NEW d \in Tunnel!Directions, Tunnel!CopyFails(d) PROVE RelayInv'
  <2>1. UNCHANGED <<sent, passed, fin, broken, first, session>>
        /\ copy' = [copy EXCEPT ![d] = "error"]
    BY <1>7 DEF Tunnel!CopyFails
  <2>2. session = "open" => d \in broken \/ Tunnel!Other(d) \in broken
    BY <1>7 DEF Tunnel!CopyFails
  <2>3. \A e \in Tunnel!Directions : copy'[e] = IF e = d THEN "error" ELSE copy[e]
    BY <1>1, <2>1 DEF Tunnel!TypeOK
  <2>4. QED
    BY <1>0, <2>1, <2>2, <2>3
<1>8. CASE Tunnel!Close
  <2>1. UNCHANGED <<sent, passed, fin, broken, copy>> /\ session = "open" /\ session' = "closed"
        /\ first' = {d \in Tunnel!Directions : copy[d] # "runs"} /\ first' # {}
    BY <1>8 DEF Tunnel!Close
  <2>2. ASSUME NEW d \in Tunnel!Directions, passed[d] < sent[d], d \notin broken, Tunnel!Other(d) \notin broken
        PROVE  Tunnel!Other(d) \in first'
    <3>1. copy[d] # "eof" /\ copy[d] # "error"
      BY <1>1, <2>1, <2>2
    <3>2. d \notin first'
      BY <1>1, <2>1, <3>1 DEF Tunnel!TypeOK
    <3>3. QED
      BY <2>1, <3>2 DEF Tunnel!Directions, Tunnel!Other
  <2>3. QED
    BY <1>0, <2>1, <2>2
<1>9. CASE UNCHANGED Tunnel!vars
  BY <1>0, <1>9 DEF Tunnel!vars
<1>10. QED
  BY <1>2, <1>3, <1>4, <1>5, <1>6, <1>7, <1>8, <1>9 DEF Tunnel!Next, Tunnel!CopyStep

LEMMA RelayAlways == Spec => []RelayInv
BY Steps, PartsInit, PartsStep, RelayInit, RelayKeeps, PTL

(* handleConnect closes both connections when the first copy ends; what is lost
   then is of the other direction, or a peer had reset its connection. *)
THEOREM LossExplainedCorrect == Spec => []LossExplained
<1>1. RelayInv => LossExplained
  BY DEF RelayInv
<1>2. QED
  BY <1>1, RelayAlways, PTL

-----------------------------------------------------------------------------
(* The types.                                                                *)

(* A parsed address is one that a datagram can hold. *)
LEMMA AddressesHeld ==
    ASSUME NEW a, Sendable(a)
    PROVE  a \in [kind : DOMAIN Packet!AddrType, bytes : Seq(Packet!Byte), port : Nat] /\ a.port <= 65535
<1>1. a.kind \in Kinds /\ a.bytes \in ByteSeq
  BY Hosts DEF Sendable
<1>2. a.port \in Nat /\ a.port <= 65535
  BY DEF Sendable, PortNumbers
<1>3. a = [kind |-> a.kind, bytes |-> a.bytes, port |-> a.port]
  BY DEF Sendable, Bytes!Address
<1>4. DOMAIN Packet!AddrType = Kinds /\ Seq(Packet!Byte) = ByteSeq
  BY PacketBytes DEF ByteSeq
<1>5. a \in [kind : Kinds, bytes : ByteSeq, port : Nat]
  BY <1>1, <1>2, <1>3
<1>6. QED
  BY <1>2, <1>4, <1>5

LEMMA BytesHeld ==
    ASSUME NEW s \in ByteSeq
    PROVE  \A i \in DOMAIN s : s[i] \in Bytes!Byte
BY BytesAre DEF ByteSeq

LEMMA PacketTyped == PacketInv /\ part = "datagram" => Packet!TypeOK
<1> SUFFICES ASSUME PacketInv, part = "datagram" PROVE Packet!TypeOK
  OBVIOUS
<1>1. Arrives /\ Progress
  BY DEF PacketInv
<1>2. \A s \in {payload, packet, forwarded, answer, reply} : \A i \in DOMAIN s : s[i] \in Packet!Byte
  <2>1. payload \in ByteSeq /\ packet \in ByteSeq /\ forwarded \in ByteSeq
        /\ answer \in ByteSeq /\ reply \in ByteSeq
    BY <1>1, PacketShape DEF Arrives, Meant, Progress
  <2>2. QED
    BY <2>1, BytesHeld, PacketBytes
<1>3. \A a \in {parsed, resolved} : a = NoAddr \/ Sendable(a)
  BY <1>1 DEF Arrives, Meant, Progress
<1>4. QED
  BY <1>1, <1>2, <1>3, AddressesHeld DEF Arrives, Meant, Progress, Packet!TypeOK

LEMMA SessionTyped == SessionInv => Session!TypeOK
<1> SUFFICES ASSUME SessionInv PROVE Session!TypeOK
  OBVIOUS
<1>1. \A pipe \in {toServer, toClient} : \A i \in DOMAIN pipe : pipe[i] \in Session!Byte
  <2>1. toServer \in ByteSeq /\ toClient \in ByteSeq
    BY DEF SessionInv, SessionTypes
  <2>2. QED
    BY <2>1, BytesHeld, SessionBytes
<1>2. QED
  BY <1>1 DEF SessionInv, SessionTypes, SetUp, Session!TypeOK

(* Every byte sent and every address read has its type, whatever is read where
   (readExactly, readAddress, parseUDPPacket), and a copy passes no more than
   was sent. *)
THEOREM Socks5TypeCorrect == Spec => []TypeOK
<1>1. Spec => []PacketInv
  BY Steps, PacketInitially, PacketKept, PTL
<1>2. SessionInv /\ RelayInv /\ PacketInv => TypeOK
  BY SessionTyped, PacketTyped DEF RelayInv, TypeOK
<1>3. QED
  BY <1>1, <1>2, SessionInductive, RelayAlways, PTL
=============================================================================
