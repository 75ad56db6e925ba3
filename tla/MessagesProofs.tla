----------------------------- MODULE MessagesProofs -----------------------------
(***************************************************************************)
(* What is in the messages of an exchange, for all addresses, subnets,     *)
(* records and times: the table of networks that are not global, the       *)
(* client subnet on its way to the resolver and back, and the records and  *)
(* their times to live.                                                    *)
(***************************************************************************)
EXTENDS Messages, WellFoundedInduction, TLAPS

\* A nonempty set of numbers has a least one.
LEMMA LeastNumber ==
  ASSUME NEW S \in SUBSET Nat, S # {}
  PROVE  \E n \in S : \A m \in S : n <= m
  <1> DEFINE less == OpToRel(<, Nat)
  <1>1. PICK n \in S : \A m \in S : ~(<<m, n>> \in less)
    <2> HIDE DEF less
    <2>1. IsWellFoundedOn(less, Nat)
      BY NatLessThanWellFounded DEF less
    <2> QED
      BY <2>1, WFMin
  <1>2. \A m \in S : m < n => <<m, n>> \in less
    <2>1. less = {ss \in Nat \X Nat : ss[1] < ss[2]}
      BY DEF OpToRel
    <2> QED
      BY <2>1
  <1> HIDE DEF less
  <1>3. \A m \in S : ~(m < n)
    BY <1>1, <1>2
  <1>4. n \in S /\ \A m \in S : n <= m
    BY <1>3
  <1> QED
    BY <1>4

-------------------------------------------------------------------------------
(***************************************************************************)
(* Masks.                                                                  *)
(***************************************************************************)

\* A byte without its low k bits.
High(a, k) == (a \div 2^k) * 2^k

LEMMA HighBits ==
  \A a \in Byte, k \in 1..7 :
     /\ High(a, k) \in Byte /\ High(High(a, k), k) = High(a, k)
     /\ \A l \in Byte : l = High(l, k) =>
           (High(a, k) = l <=> l <= a /\ a <= l + 2^k - 1)
  <1> SUFFICES ASSUME NEW a \in Byte, NEW k \in 1..7
      PROVE  /\ High(a, k) \in Byte /\ High(High(a, k), k) = High(a, k)
             /\ \A l \in Byte : l = High(l, k) =>
                   (High(a, k) = l <=> l <= a /\ a <= l + 2^k - 1)
    OBVIOUS
  <1>1. k \in {1, 2, 3, 4, 5, 6, 7}
    OBVIOUS
  <1> USE DEF High, Byte
  <1>a. CASE k = 1 BY <1>a
  <1>b. CASE k = 2 BY <1>b
  <1>c. CASE k = 3 BY <1>c
  <1>d. CASE k = 4 BY <1>d
  <1>e. CASE k = 5 BY <1>e
  <1>f. CASE k = 6 BY <1>f
  <1>g. CASE k = 7 BY <1>g
  <1> QED
    BY <1>1, <1>a, <1>b, <1>c, <1>d, <1>e, <1>f, <1>g

LEMMA AddressBytes ==
  \A ip \in Addresses :
     /\ ip \in Seq(Byte) /\ Len(ip) \in Nat /\ DOMAIN ip = 1..Len(ip)
     /\ \A i \in 1..Len(ip) : ip[i] \in Byte
     /\ Len(ip) # 0 /\ Len(ip) \in {4, 16}
  BY DEF Addresses

LEMMA ByteNat == \A b \in Byte : b \in Nat /\ b <= 255
  BY DEF Byte

\* An address is given by its bytes.
LEMMA AddressesEqual ==
  \A a, b \in Addresses : Len(a) = Len(b) /\ (\A i \in 1..Len(a) : a[i] = b[i]) => a = b
  BY AddressBytes

\* The ith byte of a masked address.
MaskByte(a, i, n) ==
    IF 8 * i <= n THEN a ELSE IF 8 * (i - 1) >= n THEN 0 ELSE High(a, 8 * i - n)

LEMMA PartialByte ==
  \A i, n \in Nat : ~(8 * i <= n) /\ ~(8 * (i - 1) >= n) => 8 * i - n \in 1..7
  OBVIOUS

LEMMA MaskByteTwice ==
  \A a \in Byte, i \in Nat, n \in Nat :
     MaskByte(a, i, n) \in Byte /\ MaskByte(MaskByte(a, i, n), i, n) = MaskByte(a, i, n)
  <1> SUFFICES ASSUME NEW a \in Byte, NEW i \in Nat, NEW n \in Nat
      PROVE  MaskByte(a, i, n) \in Byte /\ MaskByte(MaskByte(a, i, n), i, n) = MaskByte(a, i, n)
    OBVIOUS
  <1>1. 0 \in Byte
    BY DEF Byte
  <1>2. CASE ~(8 * i <= n) /\ ~(8 * (i - 1) >= n)
    <2>1. 8 * i - n \in 1..7
      BY <1>2, PartialByte
    <2> QED
      BY <1>2, <2>1, HighBits DEF MaskByte
  <1> QED
    BY <1>1, <1>2 DEF MaskByte

\* The bytes of a masked address.
LEMMA MaskBytes ==
  \A ip \in Addresses, n \in Nat :
     /\ Mask(ip, n) \in Addresses /\ Len(Mask(ip, n)) = Len(ip)
     /\ \A i \in 1..Len(ip) : Mask(ip, n)[i] = MaskByte(ip[i], i, n)
  <1> SUFFICES ASSUME NEW ip \in Addresses, NEW n \in Nat
      PROVE  /\ Mask(ip, n) \in Addresses /\ Len(Mask(ip, n)) = Len(ip)
             /\ \A i \in 1..Len(ip) : Mask(ip, n)[i] = MaskByte(ip[i], i, n)
    OBVIOUS
  <1>1. /\ Len(ip) \in Nat /\ DOMAIN ip = 1..Len(ip) /\ Len(ip) \in {4, 16}
        /\ \A i \in 1..Len(ip) : ip[i] \in Byte
    BY AddressBytes
  <1>2. PICK m : m = [i \in 1..Len(ip) |-> MaskByte(ip[i], i, n)]
    OBVIOUS
  <1>3. Mask(ip, n) = m
    BY <1>1, <1>2 DEF Mask, High, MaskByte
  <1>4. \A i \in 1..Len(ip) : MaskByte(ip[i], i, n) \in Byte
    BY <1>1, MaskByteTwice
  <1>5. m \in [1..Len(ip) -> Byte] /\ \A i \in 1..Len(ip) : m[i] = MaskByte(ip[i], i, n)
    BY <1>2, <1>4
  <1>6. m \in Seq(Byte) /\ Len(m) = Len(ip)
    BY <1>1, <1>5
  <1> QED
    BY <1>1, <1>3, <1>5, <1>6 DEF Addresses

\* Masking twice is masking once.
LEMMA MaskTwice ==
  \A ip \in Addresses, n \in Nat : Mask(Mask(ip, n), n) = Mask(ip, n)
  <1> SUFFICES ASSUME NEW ip \in Addresses, NEW n \in Nat
      PROVE  Mask(Mask(ip, n), n) = Mask(ip, n)
    OBVIOUS
  <1>1. PICK m : m = Mask(ip, n)
    OBVIOUS
  <1>2. PICK mm : mm = Mask(m, n)
    OBVIOUS
  <1>3. /\ m \in Addresses /\ Len(m) = Len(ip)
        /\ \A i \in 1..Len(ip) : m[i] = MaskByte(ip[i], i, n)
    BY <1>1, MaskBytes
  <1>4. /\ mm \in Addresses /\ Len(mm) = Len(ip)
        /\ \A i \in 1..Len(ip) : mm[i] = MaskByte(m[i], i, n)
    BY <1>2, <1>3, MaskBytes
  <1>5. \A i \in 1..Len(ip) : mm[i] = m[i]
    <2>1. \A i \in 1..Len(ip) : ip[i] \in Byte /\ i \in Nat
      BY AddressBytes
    <2> QED
      BY <1>3, <1>4, <2>1, MaskByteTwice
  <1>6. mm = m
    BY <1>3, <1>4, <1>5, AddressesEqual
  <1> QED
    BY <1>1, <1>2, <1>6

-------------------------------------------------------------------------------
(***************************************************************************)
(* The order of addresses.                                                 *)
(***************************************************************************)

\* Two addresses in order agree up to the byte that decides.
LEMMA Decides ==
  ASSUME NEW a \in Addresses, NEW b \in Addresses, Len(a) = Len(b), NotAfter(a, b)
  PROVE  \E p \in 1..(Len(a) + 1) :
            /\ \A j \in 1..(p - 1) : a[j] = b[j]
            /\ p <= Len(a) => a[p] < b[p]
  <1>1. Len(a) \in Nat /\ DOMAIN a = 1..Len(a)
    BY AddressBytes
  <1>2. CASE a = b
    <2>1. Len(a) + 1 \in 1..(Len(a) + 1) /\ ~(Len(a) + 1 <= Len(a))
      BY <1>1
    <2> QED
      BY <1>2, <2>1
  <1>3. CASE a # b
    <2>1. PICK i \in 1..Len(a) : a[i] < b[i] /\ \A j \in 1..(i - 1) : a[j] = b[j]
      BY <1>1, <1>3 DEF NotAfter
    <2>2. i \in 1..(Len(a) + 1)
      BY <1>1
    <2> QED
      BY <2>1, <2>2
  <1> QED
    BY <1>2, <1>3

\* What is between two addresses with the same first k bytes has these, and a
\* byte between theirs after them.
LEMMA Between ==
  ASSUME NEW a \in Addresses, NEW b \in Addresses, NEW ip \in Addresses,
         Len(a) = Len(ip), Len(b) = Len(ip), NotAfter(a, ip), NotAfter(ip, b),
         NEW k \in 0..Len(ip), \A j \in 1..k : a[j] = b[j]
  PROVE  /\ \A j \in 1..k : ip[j] = a[j]
         /\ k < Len(ip) => a[k + 1] <= ip[k + 1] /\ ip[k + 1] <= b[k + 1]
  <1>1. /\ Len(ip) \in Nat
        /\ \A i \in 1..Len(ip) : a[i] \in Nat /\ b[i] \in Nat /\ ip[i] \in Nat
    BY AddressBytes, ByteNat
  <1>2. PICK p \in 1..(Len(ip) + 1) :
           /\ \A j \in 1..(p - 1) : a[j] = ip[j]
           /\ p <= Len(ip) => a[p] < ip[p]
    <2>1. \E p \in 1..(Len(a) + 1) :
            /\ \A j \in 1..(p - 1) : a[j] = ip[j]
            /\ p <= Len(a) => a[p] < ip[p]
      BY Decides
    <2> QED
      BY <2>1
  <1>3. PICK q \in 1..(Len(ip) + 1) :
           /\ \A j \in 1..(q - 1) : ip[j] = b[j]
           /\ q <= Len(ip) => ip[q] < b[q]
    BY Decides
  <1>4. p > k /\ q > k
    <2>1. ~(p <= k /\ p < q)
      BY <1>1, <1>2, <1>3
    <2>2. ~(p <= k /\ p = q)
      BY <1>1, <1>2, <1>3
    <2>3. ~(q <= k /\ q < p)
      BY <1>1, <1>2, <1>3
    <2> QED
      BY <1>1, <2>1, <2>2, <2>3
  <1>5. \A j \in 1..k : ip[j] = a[j]
    BY <1>1, <1>2, <1>4
  <1>6. k < Len(ip) => a[k + 1] <= ip[k + 1] /\ ip[k + 1] <= b[k + 1]
    BY <1>1, <1>2, <1>3, <1>4
  <1> QED
    BY <1>5, <1>6

\* Addresses of which no byte is greater are in order.
LEMMA BytewiseOrder ==
  ASSUME NEW a \in Addresses, NEW b \in Addresses, Len(a) = Len(b),
         \A i \in 1..Len(a) : a[i] <= b[i]
  PROVE  NotAfter(a, b)
  <1>1. /\ DOMAIN a = 1..Len(a) /\ Len(a) \in Nat
        /\ \A i \in 1..Len(a) : a[i] \in Nat /\ b[i] \in Nat
    BY AddressBytes, ByteNat
  <1> DEFINE S == {i \in 1..Len(a) : a[i] # b[i]}
  <1>2. CASE S = {}
    <2>1. a = b
      BY <1>2, AddressesEqual
    <2> QED
      BY <2>1 DEF NotAfter
  <1>3. CASE S # {}
    <2>1. S \in SUBSET Nat
      BY <1>1
    <2>2. PICK i \in S : \A j \in S : i <= j
      <3> HIDE DEF S
      <3> QED
        BY <1>3, <2>1, LeastNumber
    <2>3. a[i] < b[i] /\ \A j \in 1..(i - 1) : a[j] = b[j]
      BY <1>1, <2>2
    <2> QED
      BY <1>1, <2>2, <2>3 DEF NotAfter
  <1> QED
    BY <1>2, <1>3

\* The byte i of the first and the last address of a network of which n bits are fixed.
ByteRange(lo, hi, i, n) ==
    IF 8 * i <= n THEN hi = lo
    ELSE IF 8 * (i - 1) >= n THEN lo = 0 /\ hi = 255
    ELSE lo = High(lo, 8 * i - n) /\ hi = lo + 2^(8 * i - n) - 1

Network(lo, hi, n) ==
    /\ lo \in Addresses /\ hi \in Addresses /\ Len(lo) = Len(hi) /\ n \in Nat
    /\ \A i \in 1..Len(lo) : ByteRange(lo[i], hi[i], i, n)

LEMMA ByteInRange ==
  ASSUME NEW lo \in Byte, NEW hi \in Byte, NEW a \in Byte, NEW i \in Nat, NEW n \in Nat,
         ByteRange(lo, hi, i, n)
  PROVE  /\ MaskByte(a, i, n) = lo => lo <= a /\ a <= hi
         /\ 8 * i > n /\ lo <= a /\ a <= hi => MaskByte(a, i, n) = lo
  <1>1. a \in Nat /\ a <= 255
    BY ByteNat
  <1>2. CASE 8 * i <= n
    BY <1>1, <1>2, ByteNat DEF MaskByte, ByteRange
  <1>3. CASE ~(8 * i <= n) /\ 8 * (i - 1) >= n
    BY <1>1, <1>3 DEF MaskByte, ByteRange
  <1>4. CASE ~(8 * i <= n) /\ ~(8 * (i - 1) >= n)
    <2>1. 8 * i - n \in 1..7
      BY <1>4, PartialByte
    <2>2. lo = High(lo, 8 * i - n) /\ hi = lo + 2^(8 * i - n) - 1
      BY <1>4 DEF ByteRange
    <2>3. MaskByte(a, i, n) = High(a, 8 * i - n)
      BY <1>4 DEF MaskByte
    <2> QED
      BY <2>1, <2>2, <2>3, HighBits
  <1> QED
    BY <1>2, <1>3, <1>4

\* An address is in a network by its mask if it is by its first and last address.
LEMMA NetworkRange ==
  ASSUME NEW lo, NEW hi, NEW n, Network(lo, hi, n), NEW ip \in Addresses, Len(lo) = Len(ip)
  PROVE  Mask(ip, n) = lo <=> NotAfter(lo, ip) /\ NotAfter(ip, hi)
  <1>1. /\ lo \in Addresses /\ hi \in Addresses /\ Len(hi) = Len(ip) /\ n \in Nat
        /\ \A i \in 1..Len(ip) : ByteRange(lo[i], hi[i], i, n)
    BY DEF Network
  <1>2. /\ Len(ip) \in Nat
        /\ \A i \in 1..Len(ip) : lo[i] \in Byte /\ hi[i] \in Byte /\ ip[i] \in Byte /\ i \in Nat
    BY <1>1, AddressBytes
  <1>3. PICK m : m = Mask(ip, n)
    OBVIOUS
  <1>4. /\ m \in Addresses /\ Len(m) = Len(ip)
        /\ \A i \in 1..Len(ip) : m[i] = MaskByte(ip[i], i, n)
    BY <1>1, <1>3, MaskBytes
  <1>5. \A i \in 1..Len(ip) :
           /\ m[i] = lo[i] => lo[i] <= ip[i] /\ ip[i] <= hi[i]
           /\ 8 * i > n /\ lo[i] <= ip[i] /\ ip[i] <= hi[i] => m[i] = lo[i]
    BY <1>1, <1>2, <1>4, ByteInRange
  <1>6. ASSUME m = lo
        PROVE  NotAfter(lo, ip) /\ NotAfter(ip, hi)
    <2>1. \A i \in 1..Len(ip) : lo[i] <= ip[i] /\ ip[i] <= hi[i]
      BY <1>5, <1>6
    <2> QED
      BY <1>1, <2>1, BytewiseOrder
  <1>7. ASSUME NotAfter(lo, ip), NotAfter(ip, hi)
        PROVE  m = lo
    <2> DEFINE k == IF n \div 8 <= Len(ip) THEN n \div 8 ELSE Len(ip)
    <2>1. k \in 0..Len(ip) /\ \A j \in 1..k : 8 * j <= n /\ j \in 1..Len(ip)
      BY <1>1, <1>2
    <2>2. \A i \in 1..Len(ip) : 8 * i <= n => i \in 1..k
      BY <1>1, <1>2
    <2>3. \A i \in 1..Len(ip) : ~(8 * i <= n) /\ ~(8 * (i - 1) >= n) => i = k + 1 /\ k < Len(ip)
      BY <1>1, <1>2
    <2> HIDE DEF k
    <2>4. \A j \in 1..k : lo[j] = hi[j]
      BY <1>1, <2>1 DEF ByteRange
    <2>5. /\ \A j \in 1..k : ip[j] = lo[j]
          /\ k < Len(ip) => lo[k + 1] <= ip[k + 1] /\ ip[k + 1] <= hi[k + 1]
      BY <1>1, <1>7, <2>1, <2>4, Between
    <2>6. ASSUME NEW i \in 1..Len(ip) PROVE m[i] = lo[i]
      <3>1. CASE 8 * i <= n
        <4>1. ip[i] = lo[i]
          BY <2>2, <2>5, <3>1
        <4> QED
          BY <1>4, <3>1, <4>1 DEF MaskByte
      <3>2. CASE ~(8 * i <= n) /\ 8 * (i - 1) >= n
        BY <1>1, <1>4, <3>2 DEF MaskByte, ByteRange
      <3>3. CASE ~(8 * i <= n) /\ ~(8 * (i - 1) >= n)
        <4>1. lo[i] <= ip[i] /\ ip[i] <= hi[i]
          BY <2>3, <2>5, <3>3
        <4>2. 8 * i > n
          BY <1>1, <1>2, <3>3
        <4> QED
          BY <1>5, <4>1, <4>2
      <3> QED
        BY <3>1, <3>2, <3>3
    <2> QED
      BY <1>1, <1>4, <2>6, AddressesEqual
  <1> QED
    BY <1>3, <1>6, <1>7

-------------------------------------------------------------------------------
(***************************************************************************)
(* The two tables of networks.                                             *)
(***************************************************************************)

LEMMA AddressFromBytes ==
  ASSUME NEW N \in Nat, N \in {4, 16}, NEW f \in [1..N -> Byte]
  PROVE  f \in Addresses /\ Len(f) = N
  <1>1. f \in Seq(Byte) /\ Len(f) = N
    OBVIOUS
  <1> QED
    BY <1>1 DEF Addresses

\* A network of which the byte with the last fixed bits has k others.
NetworkByte(lo, hi, i, n, k) ==
    /\ 8 * i <= n => hi = lo
    /\ 8 * (i - 1) >= n => lo = 0 /\ hi = 255
    /\ ~(8 * i <= n) /\ ~(8 * (i - 1) >= n) =>
          8 * i - n = k /\ lo = High(lo, k) /\ hi = lo + 2^k - 1

LEMMA NetworkBytes ==
  ASSUME NEW N \in Nat, N \in {4, 16}, NEW lo \in [1..N -> Byte], NEW hi \in [1..N -> Byte],
         NEW n \in Nat, NEW k \in Nat, \A i \in 1..N : NetworkByte(lo[i], hi[i], i, n, k)
  PROVE  Network(lo, hi, n)
  <1>1. \A i \in 1..N : ByteRange(lo[i], hi[i], i, n)
    BY DEF NetworkByte, ByteRange
  <1> QED
    BY <1>1, AddressFromBytes DEF Network

LEMMA ShortNetworks ==
  /\ Network(<<0, 0, 0, 0>>, Ones(<<0>>, 4), 8)
  /\ Network(<<10, 0, 0, 0>>, Ones(<<10>>, 4), 8)
  /\ Network(<<100, 64, 0, 0>>, Ones(<<100, 127>>, 4), 10)
  /\ Network(<<127, 0, 0, 0>>, Ones(<<127>>, 4), 8)
  /\ Network(<<169, 254, 0, 0>>, Ones(<<169, 254>>, 4), 16)
  /\ Network(<<172, 16, 0, 0>>, Ones(<<172, 31>>, 4), 12)
  /\ Network(<<192, 0, 0, 0>>, <<192, 0, 0, 7>>, 29)
  /\ Network(<<192, 88, 99, 0>>, <<192, 88, 99, 255>>, 24)
  /\ Network(<<192, 168, 0, 0>>, Ones(<<192, 168>>, 4), 16)
  /\ Network(<<240, 0, 0, 0>>, Ones(<< >>, 4), 4)
  <1>a. Network(<<0, 0, 0, 0>>, Ones(<<0>>, 4), 8)
    <2>1. PICK lo : lo = <<0, 0, 0, 0>>
      OBVIOUS
    <2>2. PICK hi : hi = Ones(<<0>>, 4)
      OBVIOUS
    <2>3. \A i \in 1..4 : /\ lo[i] = IF i = 1 THEN 0 ELSE 0
                          /\ hi[i] = IF i = 1 THEN 0 ELSE 255
      BY <2>1, <2>2 DEF V6, Ones
    <2>4. lo \in [1..4 -> Byte] /\ hi \in [1..4 -> Byte]
      BY <2>1, <2>2, <2>3 DEF V6, Ones, Byte
    <2>6. \A i \in 1..4 : NetworkByte(lo[i], hi[i], i, 8, 0)
      BY <2>3 DEF NetworkByte
    <2> QED
      BY <2>1, <2>2, <2>4, <2>6, NetworkBytes
  <1>b. Network(<<10, 0, 0, 0>>, Ones(<<10>>, 4), 8)
    <2>1. PICK lo : lo = <<10, 0, 0, 0>>
      OBVIOUS
    <2>2. PICK hi : hi = Ones(<<10>>, 4)
      OBVIOUS
    <2>3. \A i \in 1..4 : /\ lo[i] = IF i = 1 THEN 10 ELSE 0
                          /\ hi[i] = IF i = 1 THEN 10 ELSE 255
      BY <2>1, <2>2 DEF V6, Ones
    <2>4. lo \in [1..4 -> Byte] /\ hi \in [1..4 -> Byte]
      BY <2>1, <2>2, <2>3 DEF V6, Ones, Byte
    <2>6. \A i \in 1..4 : NetworkByte(lo[i], hi[i], i, 8, 0)
      BY <2>3 DEF NetworkByte
    <2> QED
      BY <2>1, <2>2, <2>4, <2>6, NetworkBytes
  <1>c. Network(<<100, 64, 0, 0>>, Ones(<<100, 127>>, 4), 10)
    <2>1. PICK lo : lo = <<100, 64, 0, 0>>
      OBVIOUS
    <2>2. PICK hi : hi = Ones(<<100, 127>>, 4)
      OBVIOUS
    <2>3. \A i \in 1..4 : /\ lo[i] = IF i = 1 THEN 100 ELSE IF i = 2 THEN 64 ELSE 0
                          /\ hi[i] = IF i = 1 THEN 100 ELSE IF i = 2 THEN 127 ELSE 255
      BY <2>1, <2>2 DEF V6, Ones
    <2>4. lo \in [1..4 -> Byte] /\ hi \in [1..4 -> Byte]
      BY <2>1, <2>2, <2>3 DEF V6, Ones, Byte
    <2>5. High(64, 6) = 64 /\ 2^6 = 64
      BY DEF High
    <2>6. \A i \in 1..4 : NetworkByte(lo[i], hi[i], i, 10, 6)
      BY <2>3, <2>5 DEF NetworkByte
    <2> QED
      BY <2>1, <2>2, <2>4, <2>6, NetworkBytes
  <1>d. Network(<<127, 0, 0, 0>>, Ones(<<127>>, 4), 8)
    <2>1. PICK lo : lo = <<127, 0, 0, 0>>
      OBVIOUS
    <2>2. PICK hi : hi = Ones(<<127>>, 4)
      OBVIOUS
    <2>3. \A i \in 1..4 : /\ lo[i] = IF i = 1 THEN 127 ELSE 0
                          /\ hi[i] = IF i = 1 THEN 127 ELSE 255
      BY <2>1, <2>2 DEF V6, Ones
    <2>4. lo \in [1..4 -> Byte] /\ hi \in [1..4 -> Byte]
      BY <2>1, <2>2, <2>3 DEF V6, Ones, Byte
    <2>6. \A i \in 1..4 : NetworkByte(lo[i], hi[i], i, 8, 0)
      BY <2>3 DEF NetworkByte
    <2> QED
      BY <2>1, <2>2, <2>4, <2>6, NetworkBytes
  <1>e. Network(<<169, 254, 0, 0>>, Ones(<<169, 254>>, 4), 16)
    <2>1. PICK lo : lo = <<169, 254, 0, 0>>
      OBVIOUS
    <2>2. PICK hi : hi = Ones(<<169, 254>>, 4)
      OBVIOUS
    <2>3. \A i \in 1..4 : /\ lo[i] = IF i = 1 THEN 169 ELSE IF i = 2 THEN 254 ELSE 0
                          /\ hi[i] = IF i = 1 THEN 169 ELSE IF i = 2 THEN 254 ELSE 255
      BY <2>1, <2>2 DEF V6, Ones
    <2>4. lo \in [1..4 -> Byte] /\ hi \in [1..4 -> Byte]
      BY <2>1, <2>2, <2>3 DEF V6, Ones, Byte
    <2>6. \A i \in 1..4 : NetworkByte(lo[i], hi[i], i, 16, 0)
      BY <2>3 DEF NetworkByte
    <2> QED
      BY <2>1, <2>2, <2>4, <2>6, NetworkBytes
  <1>f. Network(<<172, 16, 0, 0>>, Ones(<<172, 31>>, 4), 12)
    <2>1. PICK lo : lo = <<172, 16, 0, 0>>
      OBVIOUS
    <2>2. PICK hi : hi = Ones(<<172, 31>>, 4)
      OBVIOUS
    <2>3. \A i \in 1..4 : /\ lo[i] = IF i = 1 THEN 172 ELSE IF i = 2 THEN 16 ELSE 0
                          /\ hi[i] = IF i = 1 THEN 172 ELSE IF i = 2 THEN 31 ELSE 255
      BY <2>1, <2>2 DEF V6, Ones
    <2>4. lo \in [1..4 -> Byte] /\ hi \in [1..4 -> Byte]
      BY <2>1, <2>2, <2>3 DEF V6, Ones, Byte
    <2>5. High(16, 4) = 16 /\ 2^4 = 16
      BY DEF High
    <2>6. \A i \in 1..4 : NetworkByte(lo[i], hi[i], i, 12, 4)
      BY <2>3, <2>5 DEF NetworkByte
    <2> QED
      BY <2>1, <2>2, <2>4, <2>6, NetworkBytes
  <1>g. Network(<<192, 0, 0, 0>>, <<192, 0, 0, 7>>, 29)
    <2>1. PICK lo : lo = <<192, 0, 0, 0>>
      OBVIOUS
    <2>2. PICK hi : hi = <<192, 0, 0, 7>>
      OBVIOUS
    <2>3. \A i \in 1..4 : /\ lo[i] = IF i = 1 THEN 192 ELSE IF i = 2 THEN 0 ELSE IF i = 3 THEN 0 ELSE 0
                          /\ hi[i] = IF i = 1 THEN 192 ELSE IF i = 2 THEN 0 ELSE IF i = 3 THEN 0 ELSE 7
      BY <2>1, <2>2 DEF V6, Ones
    <2>4. lo \in [1..4 -> Byte] /\ hi \in [1..4 -> Byte]
      BY <2>1, <2>2, <2>3 DEF V6, Ones, Byte
    <2>5. High(0, 3) = 0 /\ 2^3 = 8
      BY DEF High
    <2>6. \A i \in 1..4 : NetworkByte(lo[i], hi[i], i, 29, 3)
      BY <2>3, <2>5 DEF NetworkByte
    <2> QED
      BY <2>1, <2>2, <2>4, <2>6, NetworkBytes
  <1>h. Network(<<192, 88, 99, 0>>, <<192, 88, 99, 255>>, 24)
    <2>1. PICK lo : lo = <<192, 88, 99, 0>>
      OBVIOUS
    <2>2. PICK hi : hi = <<192, 88, 99, 255>>
      OBVIOUS
    <2>3. \A i \in 1..4 : /\ lo[i] = IF i = 1 THEN 192 ELSE IF i = 2 THEN 88 ELSE IF i = 3 THEN 99 ELSE 0
                          /\ hi[i] = IF i = 1 THEN 192 ELSE IF i = 2 THEN 88 ELSE IF i = 3 THEN 99 ELSE 255
      BY <2>1, <2>2 DEF V6, Ones
    <2>4. lo \in [1..4 -> Byte] /\ hi \in [1..4 -> Byte]
      BY <2>1, <2>2, <2>3 DEF V6, Ones, Byte
    <2>6. \A i \in 1..4 : NetworkByte(lo[i], hi[i], i, 24, 0)
      BY <2>3 DEF NetworkByte
    <2> QED
      BY <2>1, <2>2, <2>4, <2>6, NetworkBytes
  <1>i. Network(<<192, 168, 0, 0>>, Ones(<<192, 168>>, 4), 16)
    <2>1. PICK lo : lo = <<192, 168, 0, 0>>
      OBVIOUS
    <2>2. PICK hi : hi = Ones(<<192, 168>>, 4)
      OBVIOUS
    <2>3. \A i \in 1..4 : /\ lo[i] = IF i = 1 THEN 192 ELSE IF i = 2 THEN 168 ELSE 0
                          /\ hi[i] = IF i = 1 THEN 192 ELSE IF i = 2 THEN 168 ELSE 255
      BY <2>1, <2>2 DEF V6, Ones
    <2>4. lo \in [1..4 -> Byte] /\ hi \in [1..4 -> Byte]
      BY <2>1, <2>2, <2>3 DEF V6, Ones, Byte
    <2>6. \A i \in 1..4 : NetworkByte(lo[i], hi[i], i, 16, 0)
      BY <2>3 DEF NetworkByte
    <2> QED
      BY <2>1, <2>2, <2>4, <2>6, NetworkBytes
  <1>j. Network(<<240, 0, 0, 0>>, Ones(<< >>, 4), 4)
    <2>1. PICK lo : lo = <<240, 0, 0, 0>>
      OBVIOUS
    <2>2. PICK hi : hi = Ones(<< >>, 4)
      OBVIOUS
    <2>3. \A i \in 1..4 : /\ lo[i] = IF i = 1 THEN 240 ELSE 0
                          /\ hi[i] = 255
      BY <2>1, <2>2 DEF V6, Ones
    <2>4. lo \in [1..4 -> Byte] /\ hi \in [1..4 -> Byte]
      BY <2>1, <2>2, <2>3 DEF V6, Ones, Byte
    <2>5. High(240, 4) = 240 /\ 2^4 = 16
      BY DEF High
    <2>6. \A i \in 1..4 : NetworkByte(lo[i], hi[i], i, 4, 4)
      BY <2>3, <2>5 DEF NetworkByte
    <2> QED
      BY <2>1, <2>2, <2>4, <2>6, NetworkBytes
  <1> QED
    BY <1>a, <1>b, <1>c, <1>d, <1>e, <1>f, <1>g, <1>h, <1>i, <1>j

LEMMA LongNetworks ==
  /\ Network(V6(<< >>), [V6(<< >>) EXCEPT ![16] = 1], 127)
  /\ Network(V6(<<1>>), Ones(<<1, 0, 0, 0, 0, 0, 0, 0>>, 16), 64)
  /\ Network(V6(<<252>>), Ones(<<253>>, 16), 7)
  /\ Network(V6(<<254, 128>>), Ones(<<254, 191>>, 16), 10)
  <1>a. Network(V6(<< >>), [V6(<< >>) EXCEPT ![16] = 1], 127)
    <2>1. PICK lo : lo = V6(<< >>)
      OBVIOUS
    <2>2. PICK hi : hi = [V6(<< >>) EXCEPT ![16] = 1]
      OBVIOUS
    <2>3. \A i \in 1..16 : /\ lo[i] = 0
                           /\ hi[i] = IF i = 16 THEN 1 ELSE 0
      BY <2>1, <2>2 DEF V6, Ones
    <2>4. lo \in [1..16 -> Byte] /\ hi \in [1..16 -> Byte]
      BY <2>1, <2>2, <2>3 DEF V6, Ones, Byte
    <2>5. High(0, 1) = 0 /\ 2^1 = 2
      BY DEF High
    <2>6. \A i \in 1..16 : NetworkByte(lo[i], hi[i], i, 127, 1)
      BY <2>3, <2>5 DEF NetworkByte
    <2> QED
      BY <2>1, <2>2, <2>4, <2>6, NetworkBytes
  <1>b. Network(V6(<<1>>), Ones(<<1, 0, 0, 0, 0, 0, 0, 0>>, 16), 64)
    <2>1. PICK lo : lo = V6(<<1>>)
      OBVIOUS
    <2>2. PICK hi : hi = Ones(<<1, 0, 0, 0, 0, 0, 0, 0>>, 16)
      OBVIOUS
    <2>3. \A i \in 1..16 : /\ lo[i] = IF i = 1 THEN 1 ELSE 0
                           /\ hi[i] = IF i = 1 THEN 1 ELSE IF i <= 8 THEN 0 ELSE 255
      BY <2>1, <2>2 DEF V6, Ones
    <2>4. lo \in [1..16 -> Byte] /\ hi \in [1..16 -> Byte]
      BY <2>1, <2>2, <2>3 DEF V6, Ones, Byte
    <2>6. \A i \in 1..16 : NetworkByte(lo[i], hi[i], i, 64, 0)
      BY <2>3 DEF NetworkByte
    <2> QED
      BY <2>1, <2>2, <2>4, <2>6, NetworkBytes
  <1>c. Network(V6(<<252>>), Ones(<<253>>, 16), 7)
    <2>1. PICK lo : lo = V6(<<252>>)
      OBVIOUS
    <2>2. PICK hi : hi = Ones(<<253>>, 16)
      OBVIOUS
    <2>3. \A i \in 1..16 : /\ lo[i] = IF i = 1 THEN 252 ELSE 0
                           /\ hi[i] = IF i = 1 THEN 253 ELSE 255
      BY <2>1, <2>2 DEF V6, Ones
    <2>4. lo \in [1..16 -> Byte] /\ hi \in [1..16 -> Byte]
      BY <2>1, <2>2, <2>3 DEF V6, Ones, Byte
    <2>5. High(252, 1) = 252 /\ 2^1 = 2
      BY DEF High
    <2>6. \A i \in 1..16 : NetworkByte(lo[i], hi[i], i, 7, 1)
      BY <2>3, <2>5 DEF NetworkByte
    <2> QED
      BY <2>1, <2>2, <2>4, <2>6, NetworkBytes
  <1>d. Network(V6(<<254, 128>>), Ones(<<254, 191>>, 16), 10)
    <2>1. PICK lo : lo = V6(<<254, 128>>)
      OBVIOUS
    <2>2. PICK hi : hi = Ones(<<254, 191>>, 16)
      OBVIOUS
    <2>3. \A i \in 1..16 : /\ lo[i] = IF i = 1 THEN 254 ELSE IF i = 2 THEN 128 ELSE 0
                           /\ hi[i] = IF i = 1 THEN 254 ELSE IF i = 2 THEN 191 ELSE 255
      BY <2>1, <2>2 DEF V6, Ones
    <2>4. lo \in [1..16 -> Byte] /\ hi \in [1..16 -> Byte]
      BY <2>1, <2>2, <2>3 DEF V6, Ones, Byte
    <2>5. High(128, 6) = 128 /\ 2^6 = 64
      BY DEF High
    <2>6. \A i \in 1..16 : NetworkByte(lo[i], hi[i], i, 10, 6)
      BY <2>3, <2>5 DEF NetworkByte
    <2> QED
      BY <2>1, <2>2, <2>4, <2>6, NetworkBytes
  <1> QED
    BY <1>a, <1>b, <1>c, <1>d


(***************************************************************************)
(* IsGlobalIP is right about every address: the bytes and masks of         *)
(* globalip.go filter exactly the addresses between the first and the last *)
(* one of each network that its comments name.  Whether these are all the  *)
(* networks that are not global is not said.                               *)
(***************************************************************************)
THEOREM GlobalIPCorrect ==
  \A ip \in Addresses : IsGlobalIP(ip) <=> OutsideSpecialRanges(ip)
  <1> SUFFICES ASSUME NEW ip \in Addresses
               PROVE  IsGlobalIP(ip) <=> OutsideSpecialRanges(ip)
    OBVIOUS
  <1> DEFINE
       l1 == <<0, 0, 0, 0>>
       h1 == Ones(<<0>>, 4)
       l2 == <<10, 0, 0, 0>>
       h2 == Ones(<<10>>, 4)
       l3 == <<100, 64, 0, 0>>
       h3 == Ones(<<100, 127>>, 4)
       l4 == <<127, 0, 0, 0>>
       h4 == Ones(<<127>>, 4)
       l5 == <<169, 254, 0, 0>>
       h5 == Ones(<<169, 254>>, 4)
       l6 == <<172, 16, 0, 0>>
       h6 == Ones(<<172, 31>>, 4)
       l7 == <<192, 0, 0, 0>>
       h7 == <<192, 0, 0, 7>>
       l8 == <<192, 88, 99, 0>>
       h8 == <<192, 88, 99, 255>>
       l9 == <<192, 168, 0, 0>>
       h9 == Ones(<<192, 168>>, 4)
       l10 == <<240, 0, 0, 0>>
       h10 == Ones(<< >>, 4)
       l11 == V6(<< >>)
       h11 == [V6(<< >>) EXCEPT ![16] = 1]
       l12 == V6(<<1>>)
       h12 == Ones(<<1, 0, 0, 0, 0, 0, 0, 0>>, 16)
       l13 == V6(<<252>>)
       h13 == Ones(<<253>>, 16)
       l14 == V6(<<254, 128>>)
       h14 == Ones(<<254, 191>>, 16)
  <1>1. defaultFilter =
          {<<l1, 8>>, <<l2, 8>>, <<l3, 10>>, <<l4, 8>>, <<l5, 16>>, <<l6, 12>>, <<l7, 29>>,
           <<l8, 24>>, <<l9, 16>>, <<l10, 4>>, <<l11, 127>>, <<l12, 64>>, <<l13, 7>>, <<l14, 10>>}
    BY DEF defaultFilter
  <1>2. SpecialRanges =
          {<<l1, h1>>, <<l2, h2>>, <<l3, h3>>, <<l4, h4>>, <<l5, h5>>, <<l6, h6>>, <<l7, h7>>,
           <<l8, h8>>, <<l9, h9>>, <<l10, h10>>, <<l11, h11>>, <<l12, h12>>, <<l13, h13>>, <<l14, h14>>}
    BY DEF SpecialRanges
  <1>3. /\ Network(l1, h1, 8) /\ Network(l2, h2, 8) /\ Network(l3, h3, 10) /\ Network(l4, h4, 8)
        /\ Network(l5, h5, 16) /\ Network(l6, h6, 12) /\ Network(l7, h7, 29) /\ Network(l8, h8, 24)
        /\ Network(l9, h9, 16) /\ Network(l10, h10, 4) /\ Network(l11, h11, 127) /\ Network(l12, h12, 64)
        /\ Network(l13, h13, 7) /\ Network(l14, h14, 10)
    BY ShortNetworks, LongNetworks
  <1> HIDE DEF l1, h1, l2, h2, l3, h3, l4, h4, l5, h5, l6, h6, l7, h7,
               l8, h8, l9, h9, l10, h10, l11, h11, l12, h12, l13, h13, l14, h14
  <1>4. ip # Nil
    <2>1. Len(ip) # 0
      BY AddressBytes
    <2> QED
      BY <2>1 DEF Nil
  <1> DEFINE In(l, n) == Len(l) = Len(ip) /\ Mask(ip, n) = l
             Among(l, h) == Len(l) = Len(ip) /\ NotAfter(l, ip) /\ NotAfter(ip, h)
  <1>5. IsGlobalIP(ip) <=>
          ~(\/ In(l1, 8) \/ In(l2, 8) \/ In(l3, 10) \/ In(l4, 8) \/ In(l5, 16)
            \/ In(l6, 12) \/ In(l7, 29) \/ In(l8, 24) \/ In(l9, 16) \/ In(l10, 4)
            \/ In(l11, 127) \/ In(l12, 64) \/ In(l13, 7) \/ In(l14, 10))
    BY <1>1, <1>4 DEF IsGlobalIP
  <1>6. OutsideSpecialRanges(ip) <=>
          ~(\/ Among(l1, h1) \/ Among(l2, h2) \/ Among(l3, h3) \/ Among(l4, h4) \/ Among(l5, h5)
            \/ Among(l6, h6) \/ Among(l7, h7) \/ Among(l8, h8) \/ Among(l9, h9) \/ Among(l10, h10)
            \/ Among(l11, h11) \/ Among(l12, h12) \/ Among(l13, h13) \/ Among(l14, h14))
    BY <1>2 DEF OutsideSpecialRanges
  <1>7. ASSUME NEW l, NEW h, NEW n, Network(l, h, n)
        PROVE  In(l, n) <=> Among(l, h)
    BY <1>7, NetworkRange
  <1> HIDE DEF In, Among
  <1>8. /\ (In(l1, 8) <=> Among(l1, h1)) /\ (In(l2, 8) <=> Among(l2, h2)) /\ (In(l3, 10) <=> Among(l3, h3))
        /\ (In(l4, 8) <=> Among(l4, h4)) /\ (In(l5, 16) <=> Among(l5, h5)) /\ (In(l6, 12) <=> Among(l6, h6))
        /\ (In(l7, 29) <=> Among(l7, h7)) /\ (In(l8, 24) <=> Among(l8, h8)) /\ (In(l9, 16) <=> Among(l9, h9))
        /\ (In(l10, 4) <=> Among(l10, h10)) /\ (In(l11, 127) <=> Among(l11, h11)) /\ (In(l12, 64) <=> Among(l12, h12))
        /\ (In(l13, 7) <=> Among(l13, h13)) /\ (In(l14, 10) <=> Among(l14, h14))
    BY <1>3, <1>7
  <1> QED
    BY <1>5, <1>6, <1>8

-------------------------------------------------------------------------------
(***************************************************************************)
(* The inductive invariant: each message is what its step makes of the     *)
(* earlier ones, and the response is made when the exchange begins.        *)
(***************************************************************************)
MessagesInv ==
    /\ x \in Exchanges
    /\ pc \in {"query", "request", "asked", "response", "done"}
    /\ clock \in Nat /\ clock >= x.at /\ (pc \in {"query", "request", "asked"} => clock = x.at)
    /\ pc # "query" => sent = RequestSubnet /\ mask = RequestSubnet.Netmask
    /\ Asked => asked = Packed(ServerSubnet)
    /\ pc \in {"response", "done"} => resp = Response(x.at)
    /\ pc = "done" => reply = Parsed(clock - x.behind)

LEMMA ExchangeAt == \A e \in Exchanges : e.at \in Nat
  BY ExchangesAssumption DEF Exchange

\* What the messages are made of does not change once they are made.
LEMMA RequestSubnetKept == UNCHANGED x => RequestSubnet' = RequestSubnet
  BY DEF RequestSubnet, clientFindClientIP, IETFSubnet

LEMMA ServerSubnetKept == UNCHANGED <<x, sent>> => ServerSubnet' = ServerSubnet
  BY DEF ServerSubnet, serverFindClientIP

LEMMA ResponseKept == UNCHANGED <<x, asked>> => Response(x.at)' = Response(x.at)
  BY DEF Response, Answered

LEMMA ParsedKept ==
  UNCHANGED <<x, resp, mask, clock>> => Parsed(clock - x.behind)' = Parsed(clock - x.behind)
  BY DEF Parsed, TimeDelta

LEMMA MessagesInvariant ==
  /\ Init => MessagesInv
  /\ MessagesInv /\ [Next]_vars => MessagesInv'
  <1>1. Init => MessagesInv
    BY ExchangeAt DEF Init, MessagesInv, Asked
  <1>2. ASSUME MessagesInv, [Next]_vars PROVE MessagesInv'
    <2> USE <1>2, RequestSubnetKept, ServerSubnetKept, ResponseKept, ParsedKept DEF MessagesInv, Asked
    <2>1. CASE GenerateRequest
      BY <2>1 DEF GenerateRequest
    <2>2. CASE ParseRequest
      BY <2>2 DEF ParseRequest
    <2>3. CASE GenerateResponse
      BY <2>3 DEF GenerateResponse
    <2>4. CASE Tick
      <3>1. clock' = clock + 1 /\ clock' \in Nat /\ clock' >= x.at /\ x.at \in Nat
        BY <2>4, ExchangeAt DEF Tick
      <3> QED
        BY <2>4, <3>1 DEF Tick
    <2>5. CASE ParseResponse
      BY <2>5 DEF ParseResponse
    <2>6. CASE Done \/ UNCHANGED vars
      BY <2>6 DEF Done, vars
    <2> QED
      BY <2>1, <2>2, <2>3, <2>4, <2>5, <2>6 DEF Next
  <1> QED
    BY <1>1, <1>2

-------------------------------------------------------------------------------
(***************************************************************************)
(* The client subnet.                                                      *)
(***************************************************************************)

LEMMA ExchangeFields ==
  ASSUME MessagesInv
  PROVE  /\ x.json \in BOOLEAN /\ x.NoECS \in BOOLEAN /\ x.echo \in BOOLEAN
         /\ x.client \in Addresses /\ x.peer \in Addresses
         /\ x.own \in Subnet \/ x.own = NoSubnet
         /\ x.forwarded \in Seq(Addresses \cup {Nil}) /\ x.real \in Seq(Addresses \cup {Nil})
  BY ExchangesAssumption DEF MessagesInv, Exchange

LEMMA NotNil == \A ip \in Addresses : ip # Nil
  BY AddressBytes DEF Nil

\* Packing a subnet masks its address.
LEMMA PackedSubnet ==
  \A s \in Subnet :
     /\ Packed(s) \in Subnet /\ Packed(s).Netmask = s.Netmask
     /\ Packed(s).Address = Mask(s.Address, s.Netmask)
     /\ Packed(Packed(s)) = Packed(s) /\ Packed(s) # NoSubnet /\ s # NoSubnet
     /\ s.Netmask # 255 /\ s.Address # << >>
  <1> SUFFICES ASSUME NEW s \in Subnet
      PROVE  /\ Packed(s) \in Subnet /\ Packed(s).Netmask = s.Netmask
             /\ Packed(s).Address = Mask(s.Address, s.Netmask)
             /\ Packed(Packed(s)) = Packed(s) /\ Packed(s) # NoSubnet /\ s # NoSubnet
             /\ s.Netmask # 255 /\ s.Address # << >>
    OBVIOUS
  <1>1. s.Address \in Addresses /\ s.Netmask \in Nat /\ s.Netmask # 255 /\ s.Netmask \in 0..128
    BY DEF Subnet
  <1>2. PICK m \in Addresses : m = Mask(s.Address, s.Netmask) /\ Mask(m, s.Netmask) = m
    BY <1>1, MaskBytes, MaskTwice
  <1>3. Packed(s) = [s EXCEPT !.Address = m]
    BY <1>2 DEF Packed
  <1>4. Packed(s) \in Subnet /\ Packed(s).Netmask = s.Netmask /\ Packed(s).Address = m
    BY <1>3 DEF Subnet
  <1>5. Packed(Packed(s)) = Packed(s)
    <2>1. PICK p \in Subnet : p = Packed(s)
      BY <1>4
    <2>2. Packed(p) = [p EXCEPT !.Address = m]
      BY <1>2, <1>4, <2>1 DEF Packed
    <2>3. [p EXCEPT !.Address = p.Address] = p
      BY DEF Subnet
    <2> QED
      BY <1>4, <2>1, <2>2, <2>3
  <1>6. NoSubnet.Netmask = 255
    BY DEF NoSubnet
  <1>7. s.Address # << >>
    BY <1>1, NotNil DEF Nil
  <1> QED
    BY <1>1, <1>2, <1>4, <1>5, <1>6, <1>7

LEMMA PackedNone == Packed(NoSubnet) = NoSubnet
  <1>1. Mask(<< >>, 255) = << >>
    BY DEF Mask
  <1> QED
    BY <1>1 DEF Packed, NoSubnet

LEMMA SubnetOfAddress ==
  \A ip \in Addresses :
     /\ SubnetOf(ip) \in Subnet /\ Packed(SubnetOf(ip)) = SubnetOf(ip)
     /\ PrefixLength(SubnetOf(ip).Address) = PrefixLength(ip)
     /\ SubnetOf(ip).Netmask = PrefixLength(ip)
     /\ SubnetOf(ip).Address \in Addresses
  <1> SUFFICES ASSUME NEW ip \in Addresses
      PROVE  /\ SubnetOf(ip) \in Subnet /\ Packed(SubnetOf(ip)) = SubnetOf(ip)
             /\ PrefixLength(SubnetOf(ip).Address) = PrefixLength(ip)
             /\ SubnetOf(ip).Netmask = PrefixLength(ip)
             /\ SubnetOf(ip).Address \in Addresses
    OBVIOUS
  <1>1. PICK n \in 0..128 : n = PrefixLength(ip)
    BY DEF PrefixLength
  <1>2. PICK m \in Addresses : m = Mask(ip, n) /\ Mask(m, n) = m /\ Len(m) = Len(ip)
    BY MaskBytes, MaskTwice
  <1>3. SubnetOf(ip) = [Address |-> m, Netmask |-> n]
    BY <1>1, <1>2 DEF SubnetOf
  <1>4. SubnetOf(ip) \in Subnet
    BY <1>3 DEF Subnet
  <1>5. Packed(SubnetOf(ip)) = SubnetOf(ip)
    BY <1>2, <1>3 DEF Packed
  <1>6. PrefixLength(m) = PrefixLength(ip)
    BY <1>2 DEF PrefixLength
  <1> QED
    BY <1>1, <1>3, <1>4, <1>5, <1>6

\* All the bits of an address.
LEMMA PackedWhole ==
  \A ip \in Addresses : Packed([Address |-> ip, Netmask |-> 8 * Len(ip)]) = [Address |-> ip, Netmask |-> 8 * Len(ip)]
  <1> SUFFICES ASSUME NEW ip \in Addresses
      PROVE  Packed([Address |-> ip, Netmask |-> 8 * Len(ip)]) = [Address |-> ip, Netmask |-> 8 * Len(ip)]
    OBVIOUS
  <1>1. PICK n \in Nat : n = 8 * Len(ip)
    BY AddressBytes
  <1>2. Mask(ip, n) = ip
    <2>1. PICK m : m = Mask(ip, n)
      OBVIOUS
    <2>2. m \in Addresses /\ Len(m) = Len(ip) /\ \A i \in 1..Len(ip) : m[i] = MaskByte(ip[i], i, n)
      BY <2>1, MaskBytes
    <2>3. \A i \in 1..Len(ip) : m[i] = ip[i]
      BY <1>1, <2>2, AddressBytes DEF MaskByte
    <2> QED
      BY <2>1, <2>2, <2>3, AddressesEqual
  <1> QED
    BY <1>1, <1>2 DEF Packed

ZeroSubnet(n) == [Address |-> Zero, Netmask |-> n]

LEMMA ZeroSubnets ==
  \A n \in {0, 24} : ZeroSubnet(n) \in Subnet /\ Packed(ZeroSubnet(n)) = ZeroSubnet(n)
  <1> SUFFICES ASSUME NEW n \in {0, 24}
      PROVE  ZeroSubnet(n) \in Subnet /\ Packed(ZeroSubnet(n)) = ZeroSubnet(n)
    OBVIOUS
  <1>1. Zero \in Addresses /\ \A i \in 1..4 : Zero[i] = 0
    <2>1. Zero \in [1..4 -> Byte] /\ \A i \in 1..4 : Zero[i] = 0
      BY DEF Zero, Byte
    <2> QED
      BY <2>1, AddressFromBytes
  <1>2. Len(Zero) = 4
    BY DEF Zero
  <1>3. Mask(Zero, n) = Zero
    <2>1. PICK m : m = Mask(Zero, n)
      OBVIOUS
    <2>2. m \in Addresses /\ Len(m) = Len(Zero) /\ \A i \in 1..4 : m[i] = MaskByte(Zero[i], i, n)
      BY <1>1, <1>2, <2>1, MaskBytes
    <2>3. \A i \in 1..4 : m[i] = Zero[i]
      BY <1>1, <2>2 DEF MaskByte
    <2> QED
      BY <1>1, <1>2, <2>1, <2>2, <2>3, AddressesEqual
  <1>4. ZeroSubnet(n) \in Subnet
    BY <1>1 DEF ZeroSubnet, Subnet
  <1> QED
    BY <1>3, <1>4 DEF Packed, ZeroSubnet

(***************************************************************************)
(* The subnet in the request of doh-client.                                *)
(***************************************************************************)
LEMMA RequestSubnetIs ==
  ASSUME MessagesInv
  PROVE  /\ x.NoECS /\ (x.json \/ x.own = NoSubnet) => \E n \in {0, 24} : RequestSubnet = ZeroSubnet(n)
         /\ x.own # NoSubnet /\ ~(x.NoECS /\ x.json) => RequestSubnet = x.own \/ RequestSubnet = Packed(x.own)
         /\ x.own = NoSubnet /\ ~x.NoECS =>
               RequestSubnet = IF IsGlobalIP(x.client) THEN SubnetOf(x.client) ELSE NoSubnet
  <1> USE ExchangeFields
  <1>1. ASSUME x.NoECS, x.json \/ x.own = NoSubnet
        PROVE  \E n \in {0, 24} : RequestSubnet = ZeroSubnet(n)
    <2>1. clientFindClientIP = ZeroSubnet(0)
      BY <1>1 DEF clientFindClientIP, ZeroSubnet
    <2>2. CASE x.json
      BY <2>1, <2>2 DEF RequestSubnet
    <2>3. CASE ~x.json
      <3>1. clientFindClientIP.Address = Zero /\ Zero # Nil /\ PrefixLength(Zero) = 24
        BY <2>1 DEF ZeroSubnet, Zero, Nil, PrefixLength
      <3>2. IETFSubnet = [clientFindClientIP EXCEPT !.Netmask = 24]
        BY <1>1, <2>3, <3>1 DEF IETFSubnet
      <3>3. IETFSubnet = ZeroSubnet(24)
        BY <2>1, <3>2 DEF ZeroSubnet
      <3> QED
        BY <2>3, <3>3, ZeroSubnets DEF RequestSubnet
    <2> QED
      BY <2>2, <2>3
  <1>2. ASSUME x.own # NoSubnet, ~(x.NoECS /\ x.json)
        PROVE  RequestSubnet = x.own \/ RequestSubnet = Packed(x.own)
    BY <1>2 DEF RequestSubnet, clientFindClientIP, IETFSubnet
  <1>3. ASSUME x.own = NoSubnet, ~x.NoECS
        PROVE  RequestSubnet = IF IsGlobalIP(x.client) THEN SubnetOf(x.client) ELSE NoSubnet
    <2>1. CASE IsGlobalIP(x.client)
      <3>1. clientFindClientIP = SubnetOf(x.client)
        BY <1>3, <2>1 DEF clientFindClientIP
      <3>2. IETFSubnet = SubnetOf(x.client)
        <4>1. PICK f \in Subnet : f = SubnetOf(x.client)
          BY SubnetOfAddress
        <4>2. f.Address # Nil /\ PrefixLength(f.Address) = f.Netmask
          BY <4>1, SubnetOfAddress, NotNil
        <4>3. IETFSubnet = [f EXCEPT !.Netmask = f.Netmask]
          BY <1>3, <3>1, <4>1, <4>2 DEF IETFSubnet
        <4> QED
          BY <4>1, <4>3 DEF Subnet
      <3>3. RequestSubnet = SubnetOf(x.client)
        BY <3>1, <3>2, SubnetOfAddress DEF RequestSubnet
      <3> QED
        BY <2>1, <3>3
    <2>2. CASE ~IsGlobalIP(x.client)
      <3>1. clientFindClientIP = NoSubnet
        BY <1>3, <2>2 DEF clientFindClientIP
      <3>2. NoSubnet.Address = Nil
        BY DEF NoSubnet, Nil
      <3>3. IETFSubnet = NoSubnet
        BY <1>3, <3>1, <3>2 DEF IETFSubnet
      <3>4. RequestSubnet = NoSubnet
        BY <3>1, <3>3, PackedNone DEF RequestSubnet
      <3> QED
        BY <2>2, <3>4
    <2> QED
      BY <2>1, <2>2
  <1> QED
    BY <1>1, <1>2, <1>3

\* The address that doh-server finds is one of those it looks at.
LEMMA ServerFound ==
  ASSUME MessagesInv
  PROVE  \/ serverFindClientIP = Nil
         \/ /\ serverFindClientIP \in Addresses /\ serverFindClientIP \in Candidates
            /\ x.AllowNonGlobal \/ IsGlobalIP(serverFindClientIP)
  <1> USE ExchangeFields
  <1>1. FirstGlobal(x.forwarded) # 0 =>
           /\ FirstGlobal(x.forwarded) \in DOMAIN x.forwarded
           /\ IsGlobalIP(x.forwarded[FirstGlobal(x.forwarded)])
    <2> DEFINE I == {i \in 1..Len(x.forwarded) : IsGlobalIP(x.forwarded[i])}
    <2>1. FirstGlobal(x.forwarded) = IF I # {} THEN Min(I) ELSE 0
      BY DEF FirstGlobal, SelectInSeq
    <2>2. I # {} => Min(I) \in I
      <3> SUFFICES ASSUME I # {} PROVE Min(I) \in I
        OBVIOUS
      <3>1. I \in SUBSET Nat
        OBVIOUS
      <3> HIDE DEF I
      <3>2. \E n \in I : \A m \in I : n <= m
        BY <3>1, LeastNumber
      <3> QED
        BY <3>2 DEF Min
    <2> QED
      BY <2>1, <2>2
  <1>2. CASE FirstGlobal(x.forwarded) # 0
    <2>1. serverFindClientIP = x.forwarded[FirstGlobal(x.forwarded)]
      BY <1>2 DEF serverFindClientIP
    <2>2. serverFindClientIP \in Addresses \cup {Nil}
      BY <1>1, <1>2, <2>1
    <2> QED
      BY <1>1, <1>2, <2>1, <2>2 DEF Candidates
  <1>3. CASE FirstGlobal(x.forwarded) = 0
    <2>1. PICK remote : remote = IF x.real # << >> THEN x.real[1] ELSE x.peer
      OBVIOUS
    <2>2. remote \in Candidates /\ remote \in Addresses \cup {Nil}
      <3>1. CASE x.real # << >>
        <4>1. 1 \in DOMAIN x.real
          BY <3>1
        <4> QED
          BY <2>1, <3>1, <4>1 DEF Candidates
      <3>2. CASE x.real = << >>
        BY <2>1, <3>2 DEF Candidates
      <3> QED
        BY <3>1, <3>2
    <2>3. serverFindClientIP = IF x.AllowNonGlobal \/ IsGlobalIP(remote) THEN remote ELSE Nil
      BY <1>3, <2>1 DEF serverFindClientIP
    <2> QED
      BY <2>2, <2>3
  <1> QED
    BY <1>2, <1>3

\* The subnet that the resolver is asked with.
LEMMA AskedWith ==
  ASSUME MessagesInv, Asked
  PROVE  /\ sent = RequestSubnet /\ mask = sent.Netmask
         /\ sent \in Subnet => asked = Packed(sent)
         /\ sent = NoSubnet =>
               LET ip == serverFindClientIP
               IN  \/ ip = Nil /\ asked = NoSubnet
                   \/ ip \in Addresses /\ asked = SubnetOf(ip)
                   \/ ip \in Addresses /\ x.Precise /\ ~x.json
                        /\ asked = [Address |-> ip, Netmask |-> 8 * Len(ip)]
         /\ sent \in Subnet \/ sent = NoSubnet
  <1> USE ExchangeFields
  <1>1. sent = RequestSubnet /\ mask = sent.Netmask /\ asked = Packed(ServerSubnet)
    BY DEF MessagesInv, Asked
  <1>2. sent \in Subnet => asked = Packed(sent)
    BY <1>1, PackedSubnet DEF ServerSubnet
  <1>3. sent \in Subnet \/ sent = NoSubnet
    BY <1>1, RequestSubnetIs, ZeroSubnets, SubnetOfAddress, PackedSubnet
  <1>4. ASSUME sent = NoSubnet
        PROVE  LET ip == serverFindClientIP
               IN  \/ ip = Nil /\ asked = NoSubnet
                   \/ ip \in Addresses /\ asked = SubnetOf(ip)
                   \/ ip \in Addresses /\ x.Precise /\ ~x.json
                        /\ asked = [Address |-> ip, Netmask |-> 8 * Len(ip)]
    <2>1. CASE serverFindClientIP = Nil
      BY <1>1, <1>4, <2>1, PackedNone DEF ServerSubnet
    <2>2. CASE serverFindClientIP # Nil
      <3>1. serverFindClientIP \in Addresses
        BY <2>2, ServerFound
      <3>2. \/ ServerSubnet = SubnetOf(serverFindClientIP)
            \/ /\ x.Precise /\ ~x.json
               /\ ServerSubnet = [Address |-> serverFindClientIP, Netmask |-> 8 * Len(serverFindClientIP)]
        BY <1>4, <2>2 DEF ServerSubnet
      <3> QED
        BY <1>1, <3>1, <3>2, SubnetOfAddress, PackedWhole
    <2> QED
      BY <2>1, <2>2
  <1> QED
    BY <1>1, <1>2, <1>3, <1>4

(***************************************************************************)
(* By default no address that is not global becomes part of a query, and   *)
(* of a global one no more than its first 24 or 56 bits, for every address *)
(* in every header and every combination of the options.                   *)
(***************************************************************************)
THEOREM SubnetsAreGlobal == Spec => []SubnetIsGlobal
  <1>1. ASSUME MessagesInv PROVE SubnetIsGlobal
    <2> SUFFICES ASSUME Asked, asked # NoSubnet, x.own = NoSubnet, ~x.NoECS, ~x.AllowNonGlobal
                 PROVE  \E ip \in Candidates :
                          /\ ip # Nil /\ OutsideSpecialRanges(ip)
                          /\ \/ asked = SubnetOf(ip)
                             \/ x.Precise /\ asked = [Address |-> ip, Netmask |-> 8 * Len(ip)]
      BY DEF SubnetIsGlobal
    <2> USE <1>1, ExchangeFields
    <2>1. CASE IsGlobalIP(x.client)
      <3>1. asked = SubnetOf(x.client)
        BY <2>1, RequestSubnetIs, AskedWith, SubnetOfAddress
      <3>2. x.client \in Candidates /\ x.client # Nil /\ OutsideSpecialRanges(x.client)
        BY <2>1, GlobalIPCorrect, NotNil DEF Candidates
      <3> QED
        BY <3>1, <3>2
    <2>2. CASE ~IsGlobalIP(x.client)
      <3>1. sent = NoSubnet
        BY <2>2, RequestSubnetIs, AskedWith
      <3>2. PICK ip : ip = serverFindClientIP
        OBVIOUS
      <3>3. /\ ip \in Addresses
            /\ \/ asked = SubnetOf(ip)
               \/ x.Precise /\ asked = [Address |-> ip, Netmask |-> 8 * Len(ip)]
        BY <3>1, <3>2, AskedWith
      <3>4. ip \in Candidates /\ IsGlobalIP(ip) /\ ip # Nil
        BY <3>2, <3>3, ServerFound, NotNil
      <3>5. OutsideSpecialRanges(ip)
        BY <3>3, <3>4, GlobalIPCorrect
      <3> QED
        BY <3>3, <3>4, <3>5
    <2> QED
      BY <2>1, <2>2
  <1> QED
    BY <1>1, MessagesInvariant, PTL DEF Spec

(***************************************************************************)
(* no_ecs of doh-client hides the addresses of the DNS client and of       *)
(* doh-client from the resolver behind any doh-server.                     *)
(***************************************************************************)
THEOREM NoECSHidesClient == Spec => []NoECSHides
  <1>1. ASSUME MessagesInv PROVE NoECSHides
    <2> SUFFICES ASSUME Asked, x.NoECS, x.json \/ x.own = NoSubnet
                 PROVE  asked.Address = Zero
      BY DEF NoECSHides
    <2>1. PICK n \in {0, 24} : sent = ZeroSubnet(n)
      BY <1>1, RequestSubnetIs, AskedWith
    <2>2. asked = ZeroSubnet(n)
      BY <1>1, <2>1, ZeroSubnets, AskedWith
    <2> QED
      BY <2>2 DEF ZeroSubnet
  <1> QED
    BY <1>1, MessagesInvariant, PTL DEF Spec

(***************************************************************************)
(* The resolver is asked on behalf of the DNS client: with the subnet of   *)
(* its query, else with that of its global address, whatever addresses the *)
(* proxies and doh-client itself have.                                     *)
(***************************************************************************)
THEOREM ClientSubnetPrevails == Spec => []ClientSubnetWins
  <1>1. ASSUME MessagesInv PROVE ClientSubnetWins
    <2> USE <1>1, ExchangeFields
    <2> SUFFICES ASSUME Asked, ~x.NoECS
                 PROVE  /\ x.own # NoSubnet => asked = Packed(x.own)
                        /\ x.own = NoSubnet /\ OutsideSpecialRanges(x.client) => asked = SubnetOf(x.client)
      BY DEF ClientSubnetWins
    <2>1. ASSUME x.own # NoSubnet PROVE asked = Packed(x.own)
      <3>1. sent = x.own \/ sent = Packed(x.own)
        BY <2>1, RequestSubnetIs, AskedWith
      <3> QED
        BY <2>1, <3>1, PackedSubnet, AskedWith
    <2>2. ASSUME x.own = NoSubnet, OutsideSpecialRanges(x.client) PROVE asked = SubnetOf(x.client)
      <3>1. IsGlobalIP(x.client)
        BY <2>2, GlobalIPCorrect
      <3> QED
        BY <2>2, <3>1, RequestSubnetIs, AskedWith, SubnetOfAddress
    <2> QED
      BY <2>1, <2>2
  <1> QED
    BY <1>1, MessagesInvariant, PTL DEF Spec

(***************************************************************************)
(* The DNS client is told the subnet that its answer is for, although the  *)
(* JSON API carries only the address and doh-client puts back the netmask. *)
(***************************************************************************)
THEOREM SubnetComesBack == Spec => []SubnetEchoed
  <1>1. ASSUME MessagesInv PROVE SubnetEchoed
    <2> USE <1>1, ExchangeFields
    <2> SUFFICES ASSUME pc = "done", x.echo PROVE reply.subnet = asked
      BY DEF SubnetEchoed
    <2>1. Asked /\ reply = Parsed(clock - x.behind) /\ resp = Response(x.at)
      BY DEF MessagesInv, Asked
    <2>2. Answered.subnet = asked
      BY DEF Answered
    <2>3. CASE ~x.json
      <3>1. resp.body = Answered
        BY <2>1, <2>3 DEF Response
      <3>2. reply.subnet = resp.body.subnet
        BY <2>1, <2>3, <3>1 DEF Parsed, Answered
      <3> QED
        BY <2>2, <3>1, <3>2
    <2>4. CASE x.json
      <3>1. resp.body = Marshal(Answered, x.at)
        BY <2>1, <2>4 DEF Response
      <3>2. resp.body.EdnsClientSubnet = asked.Address
        BY <2>2, <3>1 DEF Marshal
      <3>3. reply.subnet = IF asked.Address = << >> THEN NoSubnet
                           ELSE [Address |-> asked.Address, Netmask |-> EchoNetmask(asked.Address, mask)]
        BY <2>1, <2>4, <3>2 DEF Parsed, Unmarshal
      <3>4. CASE sent \in Subnet
        <4>1. asked = Packed(sent) /\ mask = sent.Netmask /\ mask # 255 /\ asked \in Subnet
          BY <2>1, <3>4, AskedWith, PackedSubnet
        <4>2. asked.Netmask = mask /\ asked.Address # << >>
          BY <3>4, <4>1, PackedSubnet
        <4>3. asked = [Address |-> asked.Address, Netmask |-> asked.Netmask]
          BY <4>1 DEF Subnet
        <4> QED
          BY <3>3, <4>1, <4>2, <4>3 DEF EchoNetmask
      <3>5. CASE sent = NoSubnet
        <4>1. mask = 255
          BY <2>1, <3>5, AskedWith DEF NoSubnet
        <4>2. CASE asked = NoSubnet
          BY <3>3, <4>2 DEF NoSubnet
        <4>3. CASE asked # NoSubnet
          <5>1. PICK ip \in Addresses : asked = SubnetOf(ip)
            BY <2>1, <2>4, <3>5, <4>3, AskedWith
          <5>2. asked \in Subnet /\ asked.Address # << >> /\ asked.Netmask = PrefixLength(asked.Address)
            BY <5>1, SubnetOfAddress, PackedSubnet
          <5>3. asked = [Address |-> asked.Address, Netmask |-> asked.Netmask]
            BY <5>2 DEF Subnet
          <5> QED
            BY <3>3, <4>1, <5>2, <5>3 DEF EchoNetmask, PrefixLength
        <4> QED
          BY <4>2, <4>3
      <3> QED
        BY <2>1, <3>4, <3>5, AskedWith
    <2> QED
      BY <2>3, <2>4
  <1> QED
    BY <1>1, MessagesInvariant, PTL DEF Spec

-------------------------------------------------------------------------------
(***************************************************************************)
(* Records that are selected.  Only and LeastTTL are recursive functions;  *)
(* induction over their positions is stated with a set of positions.       *)
(***************************************************************************)
LEMMA UpTo ==
  ASSUME NEW n \in Nat, NEW T, 0 \in T, \A i \in 1..n : i - 1 \in T => i \in T
  PROVE  \A i \in 0..n : i \in T
  <1> DEFINE S == {i \in 0..n : i \notin T}
  <1> SUFFICES ASSUME S # {} PROVE FALSE
    OBVIOUS
  <1>1. S \in SUBSET Nat
    OBVIOUS
  <1>2. PICK i \in S : \A j \in S : i <= j
    <2> HIDE DEF S
    <2> QED
      BY <1>1, LeastNumber
  <1>3. i \in 1..n /\ i - 1 \in 0..n /\ i - 1 \notin S
    BY <1>2
  <1> QED
    BY <1>2, <1>3

\* One step of Only.
Keep(rrs, kinds, i, v) == IF Kind(rrs[i]) \in kinds THEN Append(v, rrs[i]) ELSE v

IsOnly(F, rrs, kinds, n) ==
    F = [i \in 0..n |-> IF i = 0 THEN << >> ELSE Keep(rrs, kinds, i, F[i - 1])]

LEMMA OnlyEquations ==
  ASSUME NEW F, NEW rrs, NEW kinds, NEW n \in Nat, IsOnly(F, rrs, kinds, n)
  PROVE  F[0] = << >> /\ \A i \in 1..n : F[i] = Keep(rrs, kinds, i, F[i - 1])
  <1>1. \A i \in 0..n : F[i] = IF i = 0 THEN << >> ELSE Keep(rrs, kinds, i, F[i - 1])
    BY DEF IsOnly
  <1>2. \A i \in 1..n : i \in 0..n /\ i # 0
    OBVIOUS
  <1> QED
    BY <1>1, <1>2

LEMMA OnlyExists ==
  ASSUME NEW rrs, NEW kinds, NEW n \in Nat
  PROVE  \E F : IsOnly(F, rrs, kinds, n)
  <1> DEFINE T == {m \in 0..n : \E F : IsOnly(F, rrs, kinds, m)}
  <1>1. 0 \in T
    <2>1. PICK F : F = [i \in 0..0 |-> << >>]
      OBVIOUS
    <2>2. IsOnly(F, rrs, kinds, 0)
      BY <2>1 DEF IsOnly
    <2> QED
      BY <2>2
  <1>2. ASSUME NEW m \in 1..n, m - 1 \in T PROVE m \in T
    <2>1. PICK F : IsOnly(F, rrs, kinds, m - 1)
      BY <1>2
    <2>2. PICK G : G = [i \in 0..m |-> IF i = m THEN Keep(rrs, kinds, m, F[m - 1]) ELSE F[i]]
      OBVIOUS
    <2>3. F[0] = << >> /\ \A i \in 1..(m - 1) : F[i] = Keep(rrs, kinds, i, F[i - 1])
      <3>1. m - 1 \in Nat
        OBVIOUS
      <3> QED
        BY <2>1, <3>1, OnlyEquations
    <2>4. \A i \in 0..m : G[i] = IF i = 0 THEN << >> ELSE Keep(rrs, kinds, i, G[i - 1])
      <3>1. \A i \in 0..(m - 1) : G[i] = F[i]
        BY <2>2
      <3>2. G[m] = Keep(rrs, kinds, m, G[m - 1])
        <4>1. m - 1 \in 0..(m - 1) /\ m \in 0..m
          OBVIOUS
        <4> QED
          BY <2>2, <3>1, <4>1
      <3>3. \A i \in 0..m : i = 0 \/ i = m \/ (i \in 1..(m - 1) /\ i - 1 \in 0..(m - 1) /\ i \in 0..(m - 1))
        OBVIOUS
      <3>4. G[0] = << >> /\ m # 0
        BY <2>3, <3>1
      <3>5. \A i \in 1..(m - 1) : i # 0
        OBVIOUS
      <3> QED
        BY <2>3, <3>1, <3>2, <3>3, <3>4, <3>5
    <2>5. G = [i \in 0..m |-> G[i]]
      BY <2>2
    <2>6. IsOnly(G, rrs, kinds, m)
      BY <2>4, <2>5 DEF IsOnly
    <2> QED
      BY <2>6
  <1> HIDE DEF T
  <1>3. \A m \in 0..n : m \in T
    BY <1>1, <1>2, UpTo
  <1>4. n \in T
    BY <1>3
  <1> QED
    BY <1>4 DEF T

LEMMA OnlyIs ==
  ASSUME NEW rrs, Len(rrs) \in Nat, NEW kinds
  PROVE  \E F : IsOnly(F, rrs, kinds, Len(rrs)) /\ Only(rrs, kinds) = F[Len(rrs)]
  <1> DEFINE G == CHOOSE F : IsOnly(F, rrs, kinds, Len(rrs))
  <1>1. \E F : IsOnly(F, rrs, kinds, Len(rrs))
    BY OnlyExists
  <1>2. IsOnly(G, rrs, kinds, Len(rrs))
    BY <1>1
  <1>3. Only(rrs, kinds) = G[Len(rrs)]
    BY DEF Only, IsOnly, Keep
  <1> HIDE DEF G
  <1> QED
    BY <1>2, <1>3

LEMMA OnlyEmpty == \A kinds : Only(<< >>, kinds) = << >>
  <1> SUFFICES ASSUME NEW kinds PROVE Only(<< >>, kinds) = << >>
    OBVIOUS
  <1>1. Len(<< >>) = 0 /\ Len(<< >>) \in Nat
    OBVIOUS
  <1>2. PICK F : IsOnly(F, << >>, kinds, Len(<< >>)) /\ Only(<< >>, kinds) = F[Len(<< >>)]
    BY <1>1, OnlyIs
  <1>3. IsOnly(F, << >>, kinds, 0) /\ Only(<< >>, kinds) = F[0]
    BY <1>1, <1>2
  <1> QED
    BY <1>3, OnlyEquations

LEMMA OnlyAppend ==
  ASSUME NEW S, NEW q \in Seq(S), NEW e \in S, NEW kinds
  PROVE  Only(Append(q, e), kinds) =
           IF Kind(e) \in kinds THEN Append(Only(q, kinds), e) ELSE Only(q, kinds)
  <1>1. PICK n \in Nat : n = Len(q)
    OBVIOUS
  <1>2. PICK t : t = Append(q, e)
    OBVIOUS
  <1>3. Len(t) = n + 1 /\ t[n + 1] = e /\ \A i \in 1..n : t[i] = q[i]
    BY <1>1, <1>2
  <1>4. PICK F : IsOnly(F, q, kinds, n) /\ Only(q, kinds) = F[n]
    BY <1>1, OnlyIs
  <1>5. PICK G : IsOnly(G, t, kinds, n + 1) /\ Only(t, kinds) = G[n + 1]
    BY <1>3, OnlyIs
  <1>6. F[0] = << >> /\ \A i \in 1..n : F[i] = Keep(q, kinds, i, F[i - 1])
    BY <1>4, OnlyEquations
  <1>7. G[0] = << >> /\ \A i \in 1..(n + 1) : G[i] = Keep(t, kinds, i, G[i - 1])
    BY <1>5, OnlyEquations
  <1> DEFINE T == {i \in 0..n : F[i] = G[i]}
  <1>8. 0 \in T
    BY <1>6, <1>7
  <1>9. ASSUME NEW i \in 1..n, i - 1 \in T PROVE i \in T
    <2>1. F[i - 1] = G[i - 1] /\ t[i] = q[i] /\ i \in 1..(n + 1) /\ i \in 0..n
      BY <1>3, <1>9
    <2>2. Keep(q, kinds, i, F[i - 1]) = Keep(t, kinds, i, G[i - 1])
      BY <2>1 DEF Keep
    <2> QED
      BY <1>6, <1>7, <2>1, <2>2
  <1> HIDE DEF T
  <1>10. n \in T
    <2>1. \A i \in 0..n : i \in T
      BY <1>8, <1>9, UpTo
    <2> QED
      BY <2>1
  <1>11. G[n] = F[n]
    BY <1>10 DEF T
  <1>12. n + 1 \in 1..(n + 1) /\ (n + 1) - 1 = n
    OBVIOUS
  <1>13. G[n + 1] = Keep(t, kinds, n + 1, F[n])
    BY <1>7, <1>11, <1>12
  <1> QED
    BY <1>2, <1>3, <1>4, <1>5, <1>13 DEF Keep

\* The first i elements of a sequence.
First(q, i) == [j \in 1..i |-> q[j]]

LEMMA Firsts ==
  ASSUME NEW S, NEW q \in Seq(S)
  PROVE  /\ Len(q) \in Nat /\ First(q, 0) = << >> /\ First(q, Len(q)) = q
         /\ \A i \in 1..Len(q) : /\ First(q, i - 1) \in Seq(S) /\ Len(First(q, i - 1)) = i - 1
                                 /\ q[i] \in S
                                 /\ First(q, i) = Append(First(q, i - 1), q[i])
  <1>1. Len(q) \in Nat /\ DOMAIN q = 1..Len(q) /\ \A i \in 1..Len(q) : q[i] \in S
    OBVIOUS
  <1>2. First(q, 0) = << >>
    BY DEF First
  <1>3. First(q, Len(q)) = q
    BY <1>1 DEF First
  <1>4. ASSUME NEW i \in 1..Len(q)
        PROVE  /\ First(q, i - 1) \in Seq(S) /\ Len(First(q, i - 1)) = i - 1
               /\ First(q, i) = Append(First(q, i - 1), q[i])
    <2>1. i - 1 \in Nat /\ i \in Nat
      BY <1>1
    <2>2. PICK f : f = First(q, i - 1)
      OBVIOUS
    <2>3. f \in [1..(i - 1) -> S] /\ \A j \in 1..(i - 1) : f[j] = q[j]
      BY <1>1, <2>1, <2>2 DEF First
    <2>4. f \in Seq(S) /\ Len(f) = i - 1
      BY <2>1, <2>3
    <2>5. PICK g : g = First(q, i)
      OBVIOUS
    <2>6. g \in [1..i -> S] /\ \A j \in 1..i : g[j] = q[j]
      BY <1>1, <2>1, <2>5 DEF First
    <2>7. g \in Seq(S) /\ Len(g) = i
      BY <2>1, <2>6
    <2>8. PICK h : h = Append(f, q[i])
      OBVIOUS
    <2>9. h \in Seq(S) /\ Len(h) = i /\ h[i] = q[i] /\ \A j \in 1..(i - 1) : h[j] = f[j]
      BY <1>1, <2>1, <2>4, <2>8
    <2>10. \A j \in 1..i : g[j] = h[j]
      BY <2>1, <2>3, <2>6, <2>9
    <2>11. g = h
      BY <2>7, <2>8, <2>9, <2>10
    <2> QED
      BY <2>2, <2>4, <2>5, <2>8, <2>11
  <1> QED
    BY <1>1, <1>2, <1>3, <1>4

\* Induction over sequences that grow at their end.
LEMMA GrowingSequences ==
  ASSUME NEW S, NEW T, << >> \in T, \A q \in Seq(S) : \A e \in S : q \in T => Append(q, e) \in T
  PROVE  \A q \in Seq(S) : q \in T
  <1> SUFFICES ASSUME NEW q \in Seq(S) PROVE q \in T
    OBVIOUS
  <1> DEFINE I == {i \in 0..Len(q) : First(q, i) \in T}
  <1>1. /\ Len(q) \in Nat /\ First(q, 0) = << >> /\ First(q, Len(q)) = q
        /\ \A i \in 1..Len(q) : /\ First(q, i - 1) \in Seq(S) /\ q[i] \in S
                                /\ First(q, i) = Append(First(q, i - 1), q[i])
    BY Firsts
  <1>2. 0 \in I
    BY <1>1
  <1>3. ASSUME NEW i \in 1..Len(q), i - 1 \in I PROVE i \in I
    <2>1. First(q, i - 1) \in T /\ i \in 0..Len(q)
      BY <1>1, <1>3
    <2> QED
      BY <1>1, <2>1
  <1> HIDE DEF I
  <1>4. \A i \in 0..Len(q) : i \in I
    BY <1>1, <1>2, <1>3, UpTo
  <1>5. Len(q) \in I
    BY <1>1, <1>4
  <1> QED
    BY <1>1, <1>5 DEF I

\* What is selected, by induction over the records.
LEMMA OnlyElements ==
  ASSUME NEW S, NEW kinds
  PROVE  \A q \in Seq(S) :
           /\ Only(q, kinds) \in Seq(S)
           /\ \A i \in DOMAIN Only(q, kinds) :
                \E p \in DOMAIN q : Only(q, kinds)[i] = q[p] /\ Kind(q[p]) \in kinds
  <1> DEFINE Good(q) == /\ Only(q, kinds) \in Seq(S)
                        /\ \A i \in DOMAIN Only(q, kinds) :
                             \E p \in DOMAIN q : Only(q, kinds)[i] = q[p] /\ Kind(q[p]) \in kinds
             T == {q \in Seq(S) : Good(q)}
  <1>1. << >> \in T
    <2>1. PICK o : o = Only(<< >>, kinds)
      OBVIOUS
    <2>2. o = << >>
      BY <2>1, OnlyEmpty
    <2>3. DOMAIN o = {} /\ o \in Seq(S)
      BY <2>2
    <2>4. Good(<< >>)
      BY <2>1, <2>3
    <2> QED
      BY <2>4
  <1>2. ASSUME NEW q \in Seq(S), NEW e \in S, q \in T PROVE Append(q, e) \in T
    <2>1. PICK t : t = Append(q, e)
      OBVIOUS
    <2>2. t \in Seq(S) /\ Len(t) = Len(q) + 1 /\ t[Len(q) + 1] = e /\ \A i \in 1..Len(q) : t[i] = q[i]
      BY <2>1
    <2>3. DOMAIN t = 1..(Len(q) + 1) /\ DOMAIN q = 1..Len(q) /\ Len(q) \in Nat
      BY <2>2
    <2>4. PICK o : o = Only(q, kinds)
      OBVIOUS
    <2>5. o \in Seq(S) /\ \A i \in DOMAIN o : \E p \in DOMAIN q : o[i] = q[p] /\ Kind(q[p]) \in kinds
      BY <1>2, <2>4
    <2>6. PICK w : w = Only(t, kinds)
      OBVIOUS
    <2>7. w = IF Kind(e) \in kinds THEN Append(o, e) ELSE o
      BY <2>1, <2>4, <2>6, OnlyAppend
    <2>8. w \in Seq(S) /\ \A i \in DOMAIN w : \E p \in DOMAIN t : w[i] = t[p] /\ Kind(t[p]) \in kinds
      <3>1. CASE Kind(e) \in kinds
        <4>1. w = Append(o, e)
          BY <2>7, <3>1
        <4>2. w \in Seq(S) /\ Len(w) = Len(o) + 1 /\ w[Len(o) + 1] = e /\ \A i \in 1..Len(o) : w[i] = o[i]
          BY <2>5, <4>1
        <4>3. DOMAIN w = 1..(Len(o) + 1) /\ DOMAIN o = 1..Len(o) /\ Len(o) \in Nat
          BY <2>5, <4>2
        <4>4. ASSUME NEW i \in DOMAIN w PROVE \E p \in DOMAIN t : w[i] = t[p] /\ Kind(t[p]) \in kinds
          <5>1. CASE i = Len(o) + 1
            BY <2>2, <2>3, <3>1, <4>2, <5>1
          <5>2. CASE i \in 1..Len(o)
            <6>1. PICK p \in DOMAIN q : o[i] = q[p] /\ Kind(q[p]) \in kinds
              BY <2>5, <4>3, <5>2
            <6>2. p \in DOMAIN t /\ t[p] = q[p] /\ w[i] = o[i]
              BY <2>2, <2>3, <4>2, <5>2
            <6> QED
              BY <6>1, <6>2
          <5> QED
            BY <4>3, <5>1, <5>2
        <4> QED
          BY <4>2, <4>4
      <3>2. CASE Kind(e) \notin kinds
        <4>1. w = o
          BY <2>7, <3>2
        <4>2. ASSUME NEW i \in DOMAIN w PROVE \E p \in DOMAIN t : w[i] = t[p] /\ Kind(t[p]) \in kinds
          <5>1. PICK p \in DOMAIN q : o[i] = q[p] /\ Kind(q[p]) \in kinds
            BY <2>5, <4>1
          <5>2. p \in DOMAIN t /\ t[p] = q[p]
            BY <2>2, <2>3
          <5> QED
            BY <4>1, <5>1, <5>2
        <4> QED
          BY <2>5, <4>1, <4>2
      <3> QED
        BY <3>1, <3>2
    <2>9. Good(t)
      BY <2>6, <2>8
    <2> QED
      BY <2>1, <2>2, <2>9
  <1> HIDE DEF T
  <1>3. \A q \in Seq(S) : q \in T
    BY <1>1, <1>2, GrowingSequences
  <1> QED
    BY <1>3 DEF T

\* Nothing is lost where every record is of the kinds.
LEMMA OnlyAll ==
  ASSUME NEW S, NEW kinds
  PROVE  \A q \in Seq(S) : (\A i \in DOMAIN q : Kind(q[i]) \in kinds) => Only(q, kinds) = q
  <1> DEFINE Good(q) == (\A i \in DOMAIN q : Kind(q[i]) \in kinds) => Only(q, kinds) = q
             T == {q \in Seq(S) : Good(q)}
  <1>1. << >> \in T
    BY OnlyEmpty
  <1>2. ASSUME NEW q \in Seq(S), NEW e \in S, q \in T PROVE Append(q, e) \in T
    <2>1. PICK t : t = Append(q, e)
      OBVIOUS
    <2>2. t \in Seq(S) /\ Len(t) = Len(q) + 1 /\ t[Len(q) + 1] = e /\ \A i \in 1..Len(q) : t[i] = q[i]
      BY <2>1
    <2>3. DOMAIN t = 1..(Len(q) + 1) /\ DOMAIN q = 1..Len(q) /\ Len(q) \in Nat
      BY <2>2
    <2>4. ASSUME \A i \in DOMAIN t : Kind(t[i]) \in kinds PROVE Only(t, kinds) = t
      <3>1. Kind(e) \in kinds
        BY <2>2, <2>3, <2>4
      <3>2. \A i \in DOMAIN q : Kind(q[i]) \in kinds
        <4> SUFFICES ASSUME NEW i \in DOMAIN q PROVE Kind(q[i]) \in kinds
          OBVIOUS
        <4>1. i \in DOMAIN t /\ t[i] = q[i]
          BY <2>2, <2>3
        <4> QED
          BY <2>4, <4>1
      <3>3. Only(q, kinds) = q
        BY <1>2, <3>2
      <3> QED
        BY <2>1, <3>1, <3>3, OnlyAppend
    <2> QED
      BY <2>1, <2>2, <2>4
  <1> HIDE DEF T
  <1>3. \A q \in Seq(S) : q \in T
    BY <1>1, <1>2, GrowingSequences
  <1> QED
    BY <1>3 DEF T

\* Selecting twice selects once.
LEMMA OnlyTwice ==
  ASSUME NEW S, NEW kinds, NEW fewer, fewer \subseteq kinds
  PROVE  \A q \in Seq(S) : Only(Only(q, kinds), fewer) = Only(q, fewer)
  <1> DEFINE T == {q \in Seq(S) : Only(Only(q, kinds), fewer) = Only(q, fewer)}
  <1>1. << >> \in T
    BY OnlyEmpty
  <1>2. ASSUME NEW q \in Seq(S), NEW e \in S, q \in T PROVE Append(q, e) \in T
    <2>1. PICK o : o = Only(q, kinds)
      OBVIOUS
    <2>2. o \in Seq(S) /\ Only(o, fewer) = Only(q, fewer)
      BY <1>2, <2>1, OnlyElements
    <2>3. Only(Append(q, e), kinds) = IF Kind(e) \in kinds THEN Append(o, e) ELSE o
      BY <2>1, OnlyAppend
    <2>4. Only(Append(q, e), fewer) = IF Kind(e) \in fewer THEN Append(Only(q, fewer), e) ELSE Only(q, fewer)
      BY OnlyAppend
    <2>5. Only(Append(o, e), fewer) = IF Kind(e) \in fewer THEN Append(Only(o, fewer), e) ELSE Only(o, fewer)
      BY <2>2, OnlyAppend
    <2>6. Append(q, e) \in Seq(S)
      OBVIOUS
    <2>7. Only(Only(Append(q, e), kinds), fewer) = Only(Append(q, e), fewer)
      BY <2>2, <2>3, <2>4, <2>5
    <2> QED
      BY <2>6, <2>7
  <1> HIDE DEF T
  <1>3. \A q \in Seq(S) : q \in T
    BY <1>1, <1>2, GrowingSequences
  <1> QED
    BY <1>3 DEF T

(***************************************************************************)
(* A step that is applied to every record and keeps its kind commutes with *)
(* the selection.                                                          *)
(***************************************************************************)
LEMMA OnlyMarshalled ==
  ASSUME NEW kinds, NEW now
  PROVE  \A q \in Seq(RR) : Only(Marshalled(q, now), kinds) = Marshalled(Only(q, kinds), now)
  <1> DEFINE M == {marshalRR(rr, now) : rr \in RR}
             T == {q \in Seq(RR) : Only(Marshalled(q, now), kinds) = Marshalled(Only(q, kinds), now)}
  <1>1. Marshalled(<< >>, now) = << >>
    BY DEF Marshalled
  <1>2. << >> \in T
    BY <1>1, OnlyEmpty
  <1>3. \A q \in Seq(RR) : Marshalled(q, now) \in Seq(M)
    <2> SUFFICES ASSUME NEW q \in Seq(RR) PROVE Marshalled(q, now) \in Seq(M)
      OBVIOUS
    <2>1. Len(q) \in Nat /\ DOMAIN q = 1..Len(q) /\ \A i \in 1..Len(q) : q[i] \in RR
      OBVIOUS
    <2>2. Marshalled(q, now) = [i \in 1..Len(q) |-> marshalRR(q[i], now)]
      BY <2>1 DEF Marshalled
    <2>3. \A i \in 1..Len(q) : marshalRR(q[i], now) \in M
      BY <2>1
    <2> HIDE DEF M
    <2>4. Marshalled(q, now) \in [1..Len(q) -> M]
      BY <2>2, <2>3
    <2> QED
      BY <2>1, <2>4
  <1>4. \A q \in Seq(RR) : \A e \in RR :
          Marshalled(Append(q, e), now) = Append(Marshalled(q, now), marshalRR(e, now))
    <2> SUFFICES ASSUME NEW q \in Seq(RR), NEW e \in RR
                 PROVE  Marshalled(Append(q, e), now) = Append(Marshalled(q, now), marshalRR(e, now))
      OBVIOUS
    <2>1. PICK t : t = Append(q, e)
      OBVIOUS
    <2>2. /\ t \in Seq(RR) /\ Len(t) = Len(q) + 1 /\ t[Len(q) + 1] = e
          /\ \A i \in 1..Len(q) : t[i] = q[i]
      BY <2>1
    <2>3. DOMAIN t = 1..(Len(q) + 1) /\ DOMAIN q = 1..Len(q) /\ Len(q) \in Nat
      BY <2>2
    <2>4. PICK m : m = Marshalled(q, now)
      OBVIOUS
    <2>5. PICK u : u = Marshalled(t, now)
      OBVIOUS
    <2>6. PICK v : v = marshalRR(e, now)
      OBVIOUS
    <2>7. m \in Seq(M) /\ u \in Seq(M) /\ v \in M
      BY <1>3, <2>2, <2>4, <2>5, <2>6
    <2> HIDE DEF M
    <2>8. DOMAIN m = 1..Len(q) /\ \A i \in 1..Len(q) : m[i] = marshalRR(q[i], now)
      BY <2>3, <2>4 DEF Marshalled
    <2>9. DOMAIN u = 1..(Len(q) + 1) /\ \A i \in 1..(Len(q) + 1) : u[i] = marshalRR(t[i], now)
      BY <2>3, <2>5 DEF Marshalled
    <2>10. Len(m) = Len(q) /\ Len(u) = Len(q) + 1
      BY <2>3, <2>7, <2>8, <2>9
    <2>11. PICK a : a = Append(m, v)
      OBVIOUS
    <2>12. /\ a \in Seq(M) /\ Len(a) = Len(q) + 1 /\ a[Len(q) + 1] = v
           /\ \A i \in 1..Len(q) : a[i] = m[i]
      BY <2>3, <2>7, <2>10, <2>11
    <2>13. \A i \in 1..(Len(q) + 1) : i = Len(q) + 1 \/ i \in 1..Len(q)
      BY <2>3
    <2>14. \A i \in 1..(Len(q) + 1) : a[i] = u[i]
      BY <2>2, <2>3, <2>6, <2>8, <2>9, <2>12, <2>13
    <2>15. a = u
      BY <2>7, <2>10, <2>12, <2>14
    <2> QED
      BY <2>1, <2>4, <2>5, <2>6, <2>11, <2>15
  <1>5. \A e \in RR : Kind(marshalRR(e, now)) = Kind(e) /\ marshalRR(e, now) \in M
    BY DEF Kind, marshalRR
  <1>6. ASSUME NEW q \in Seq(RR), NEW e \in RR, q \in T PROVE Append(q, e) \in T
    <2>1. PICK m : m = Marshalled(q, now)
      OBVIOUS
    <2>2. PICK v : v = marshalRR(e, now)
      OBVIOUS
    <2>3. m \in Seq(M) /\ v \in M /\ Kind(v) = Kind(e)
      BY <1>3, <1>5, <2>1, <2>2
    <2> HIDE DEF M
    <2>4. Only(Append(m, v), kinds) = IF Kind(v) \in kinds THEN Append(Only(m, kinds), v) ELSE Only(m, kinds)
      BY <2>3, OnlyAppend
    <2>5. PICK o : o = Only(q, kinds)
      OBVIOUS
    <2>6. o \in Seq(RR)
      BY <2>5, OnlyElements
    <2>7. Only(Append(q, e), kinds) = IF Kind(e) \in kinds THEN Append(o, e) ELSE o
      BY <2>5, OnlyAppend
    <2>8. Only(m, kinds) = Marshalled(o, now)
      BY <1>6, <2>1, <2>5
    <2>9. Marshalled(Append(o, e), now) = Append(Marshalled(o, now), v)
      BY <1>4, <2>2, <2>6
    <2>10. Marshalled(Append(q, e), now) = Append(m, v)
      BY <1>4, <2>1, <2>2
    <2>11. Append(q, e) \in Seq(RR)
      OBVIOUS
    <2>12. Only(Marshalled(Append(q, e), now), kinds) = Marshalled(Only(Append(q, e), kinds), now)
      BY <2>3, <2>4, <2>7, <2>8, <2>9, <2>10
    <2> QED
      BY <2>11, <2>12
  <1> HIDE DEF T, M
  <1>7. \A q \in Seq(RR) : q \in T
    BY <1>2, <1>6, GrowingSequences
  <1> QED
    BY <1>7 DEF T

-------------------------------------------------------------------------------
(***************************************************************************)
(* The records of the reply, section by section.  Every record that is     *)
(* kept arrives as the record that marshalRR and unmarshalRR, or           *)
(* fixRecordTTL, make of it.                                               *)
(***************************************************************************)
Delta == TimeDelta(IF x.renews THEN Second(clock - x.behind) ELSE resp.Date)

Arrived(rr) ==
    IF x.json THEN unmarshalRR(marshalRR(rr, x.at), clock - x.behind) ELSE fixRecordTTL(rr, Delta)

LEMMA NotOPTs ==
  /\ \A rr \in RR : Kind(rr) \in NotOPT <=> rr.type # "OPT"
  /\ Readable \subseteq NotOPT
  BY DEF RR, Kind, NotOPT, Readable

\* The sections of the resolver's reply.
LEMMA MessageSections ==
  ASSUME MessagesInv
  PROVE  /\ \A s \in Sections : x.msg[s] \in Seq(RR)
         /\ Only(x.msg.Answer, NotOPT) = x.msg.Answer /\ Only(x.msg.Ns, NotOPT) = x.msg.Ns
  <1>1. x \in Exchanges /\ x \in Exchange
    BY ExchangesAssumption DEF MessagesInv
  <1>2. x.msg \in [Rcode : Nat, Answer : Seq(RR), Ns : Seq(RR), Extra : Seq(RR)]
    BY <1>1 DEF Exchange
  <1>3. x.msg.Answer \in Seq(RR) /\ x.msg.Ns \in Seq(RR) /\ x.msg.Extra \in Seq(RR)
    BY <1>2
  <1>4. \A s \in Sections : x.msg[s] \in Seq(RR)
    BY <1>3 DEF Sections
  <1>5. \A i \in DOMAIN x.msg.Answer : Kind(x.msg.Answer[i]) \in NotOPT
    <2> SUFFICES ASSUME NEW i \in DOMAIN x.msg.Answer PROVE Kind(x.msg.Answer[i]) \in NotOPT
      OBVIOUS
    <2>1. x.msg.Answer[i] \in RR
      BY <1>3
    <2>2. x.msg.Answer[i].type # "OPT"
      BY <1>1, MessagesAssumption
    <2> QED
      BY <2>1, <2>2, NotOPTs
  <1>6. \A i \in DOMAIN x.msg.Ns : Kind(x.msg.Ns[i]) \in NotOPT
    <2> SUFFICES ASSUME NEW i \in DOMAIN x.msg.Ns PROVE Kind(x.msg.Ns[i]) \in NotOPT
      OBVIOUS
    <2>1. x.msg.Ns[i] \in RR
      BY <1>3
    <2>2. x.msg.Ns[i].type # "OPT"
      BY <1>1, MessagesAssumption
    <2> QED
      BY <2>1, <2>2, NotOPTs
  <1> QED
    BY <1>3, <1>4, <1>5, <1>6, OnlyAll

\* Marshal and Unmarshal of a section: the readable records, one by one.
LEMMA ThroughJSON ==
  ASSUME NEW q \in Seq(RR), NEW at, NEW now
  PROVE  LET k == Only(q, Readable)
         IN  Unmarshalled(Marshalled(q, at), now) =
               [i \in DOMAIN k |-> unmarshalRR(marshalRR(k[i], at), now)]
  <1>1. PICK k : k = Only(q, Readable)
    OBVIOUS
  <1>2. PICK m : m = Marshalled(k, at)
    OBVIOUS
  <1>3. Only(Marshalled(q, at), Readable) = m
    BY <1>1, <1>2, OnlyMarshalled
  <1>4. DOMAIN m = DOMAIN k /\ \A i \in DOMAIN k : m[i] = marshalRR(k[i], at)
    BY <1>2 DEF Marshalled
  <1>5. Unmarshalled(Marshalled(q, at), now) = [i \in DOMAIN m |-> unmarshalRR(m[i], now)]
    BY <1>3 DEF Unmarshalled
  <1>6. Unmarshalled(Marshalled(q, at), now) = [i \in DOMAIN k |-> unmarshalRR(marshalRR(k[i], at), now)]
    BY <1>4, <1>5
  <1> QED
    BY <1>1, <1>6

LEMMA ReplySections ==
  ASSUME MessagesInv, pc = "done"
  PROVE  /\ \A s \in Sections : /\ Kept(s) \in Seq(RR)
                                /\ reply[s] = [i \in DOMAIN Kept(s) |-> Arrived(Kept(s)[i])]
         /\ reply.Rcode = IF x.json THEN x.msg.Rcode % 16 ELSE x.msg.Rcode
  <1>1. resp = Response(x.at) /\ reply = Parsed(clock - x.behind)
    BY DEF MessagesInv
  <1>2. /\ \A s \in Sections : x.msg[s] \in Seq(RR)
        /\ Only(x.msg.Answer, NotOPT) = x.msg.Answer /\ Only(x.msg.Ns, NotOPT) = x.msg.Ns
    BY MessageSections
  <1>3. \A s \in Sections : Kept(s) \in Seq(RR)
    BY <1>2, OnlyElements DEF Kept
  <1>4. "Answer" \in Sections /\ "Ns" \in Sections /\ "Extra" \in Sections
    BY DEF Sections
  <1>5. CASE x.json
    <2>1. resp.body = Marshal(Answered, x.at)
      BY <1>1, <1>5 DEF Response
    <2>2. /\ resp.body.Answer = Marshalled(x.msg.Answer, x.at)
          /\ resp.body.Ns = Marshalled(x.msg.Ns, x.at)
          /\ resp.body.Extra = Marshalled(Only(x.msg.Extra, NotOPT), x.at)
          /\ resp.body.Status = x.msg.Rcode
      BY <2>1 DEF Marshal, Answered
    <2>3. reply = Unmarshal(resp.body, mask, clock - x.behind)
      BY <1>1, <1>5 DEF Parsed
    <2>4. /\ reply.Answer = Unmarshalled(resp.body.Answer, clock - x.behind)
          /\ reply.Ns = Unmarshalled(resp.body.Ns, clock - x.behind)
          /\ reply.Extra = Unmarshalled(resp.body.Extra, clock - x.behind)
          /\ reply.Rcode = x.msg.Rcode % 16
      BY <2>2, <2>3 DEF Unmarshal
    <2>5. \A s \in Sections : Kept(s) = Only(x.msg[s], Readable)
      BY <1>5 DEF Kept
    <2>6. Only(x.msg.Extra, NotOPT) \in Seq(RR) /\ Only(Only(x.msg.Extra, NotOPT), Readable) = Kept("Extra")
      BY <1>2, <1>4, <2>5, NotOPTs, OnlyElements, OnlyTwice
    <2>7. \A rr : Arrived(rr) = unmarshalRR(marshalRR(rr, x.at), clock - x.behind)
      BY <1>5 DEF Arrived
    <2>8. reply["Answer"] = [i \in DOMAIN Kept("Answer") |-> Arrived(Kept("Answer")[i])]
      BY <1>2, <1>4, <2>2, <2>4, <2>5, <2>7, ThroughJSON
    <2>9. reply["Ns"] = [i \in DOMAIN Kept("Ns") |-> Arrived(Kept("Ns")[i])]
      BY <1>2, <1>4, <2>2, <2>4, <2>5, <2>7, ThroughJSON
    <2>10. reply["Extra"] = [i \in DOMAIN Kept("Extra") |-> Arrived(Kept("Extra")[i])]
      BY <2>2, <2>4, <2>6, <2>7, ThroughJSON
    <2> QED
      BY <1>3, <1>5, <2>4, <2>8, <2>9, <2>10 DEF Sections
  <1>6. CASE ~x.json
    <2>1. resp.body = Answered
      BY <1>1, <1>6 DEF Response
    <2>2. reply = [Answered EXCEPT !.Answer = FixedTTLs(@, Delta), !.Ns = FixedTTLs(@, Delta),
                                   !.Extra = FixedTTLs(Only(@, NotOPT), Delta)]
      BY <1>1, <1>6, <2>1 DEF Parsed, Delta
    <2>3. /\ reply.Answer = FixedTTLs(x.msg.Answer, Delta)
          /\ reply.Ns = FixedTTLs(x.msg.Ns, Delta)
          /\ reply.Extra = FixedTTLs(Only(x.msg.Extra, NotOPT), Delta)
          /\ reply.Rcode = x.msg.Rcode
      BY <2>2 DEF Answered
    <2>4. \A s \in Sections : Kept(s) = Only(x.msg[s], NotOPT)
      BY <1>6 DEF Kept
    <2>5. \A rr : Arrived(rr) = fixRecordTTL(rr, Delta)
      BY <1>6 DEF Arrived
    <2>6. /\ reply["Answer"] = FixedTTLs(Kept("Answer"), Delta)
          /\ reply["Ns"] = FixedTTLs(Kept("Ns"), Delta)
          /\ reply["Extra"] = FixedTTLs(Kept("Extra"), Delta)
      BY <1>2, <1>4, <2>3, <2>4
    <2>7. \A s \in Sections : FixedTTLs(Kept(s), Delta) = [i \in DOMAIN Kept(s) |-> Arrived(Kept(s)[i])]
      BY <2>5 DEF FixedTTLs
    <2> QED
      BY <1>3, <1>6, <2>3, <2>6, <2>7 DEF Sections
  <1> QED
    BY <1>5, <1>6

LEMMA ReplyRecord ==
  ASSUME MessagesInv, pc = "done", NEW s \in Sections, NEW i \in DOMAIN reply[s]
  PROVE  i \in DOMAIN Kept(s) /\ Kept(s)[i] \in RR /\ reply[s][i] = Arrived(Kept(s)[i])
  <1>1. PICK q : q = Kept(s)
    OBVIOUS
  <1>2. PICK r : r = reply[s]
    OBVIOUS
  <1>3. q \in Seq(RR) /\ r = [j \in DOMAIN q |-> Arrived(q[j])]
    BY <1>1, <1>2, ReplySections
  <1>4. i \in DOMAIN q
    BY <1>2, <1>3
  <1>5. q[i] \in RR /\ r[i] = Arrived(q[i])
    BY <1>3, <1>4
  <1> QED
    BY <1>1, <1>2, <1>4, <1>5

\* A record that arrives is the record that was kept, up to its TTL.
LEMMA ArrivedKind ==
  \A rr \in RR : Kind(Arrived(rr)) = Kind(rr)
  BY DEF RR, Kind, Arrived, unmarshalRR, marshalRR, fixRecordTTL

(***************************************************************************)
(* RecordsKept: Unmarshal's loop, which skips what it cannot read, after   *)
(* Marshal's, which skips OPT records, gives the DNS client the resolver's *)
(* records of every section, in their order, in messages of any length.    *)
(***************************************************************************)
THEOREM RecordsArrive == Spec => []RecordsKept
  <1>1. ASSUME MessagesInv PROVE RecordsKept
    <2> USE <1>1
    <2> SUFFICES ASSUME pc = "done"
                 PROVE  /\ \A s \in Sections : Contents(reply[s]) = Contents(Kept(s))
                        /\ reply.Rcode = IF x.json THEN x.msg.Rcode % 16 ELSE x.msg.Rcode
      BY DEF RecordsKept
    <2>1. ASSUME NEW s \in Sections PROVE Contents(reply[s]) = Contents(Kept(s))
      <3>1. PICK k : k = Kept(s)
        OBVIOUS
      <3>2. PICK r : r = reply[s]
        OBVIOUS
      <3>3. k \in Seq(RR) /\ r = [i \in DOMAIN k |-> Arrived(k[i])]
        BY <3>1, <3>2, ReplySections
      <3>4. \A i \in DOMAIN k : Kind(r[i]) = Kind(k[i])
        <4> SUFFICES ASSUME NEW i \in DOMAIN k PROVE Kind(r[i]) = Kind(k[i])
          OBVIOUS
        <4>1. k[i] \in RR /\ r[i] = Arrived(k[i])
          BY <3>3
        <4> QED
          BY <4>1, ArrivedKind
      <3>5. DOMAIN r = DOMAIN k
        BY <3>3
      <3>6. Contents(r) = Contents(k)
        BY <3>4, <3>5 DEF Contents
      <3> QED
        BY <3>1, <3>2, <3>6
    <2> QED
      BY <2>1, ReplySections
  <1> QED
    BY <1>1, MessagesInvariant, PTL DEF Spec

LEMMA Halves ==
  \A n \in Int : n \div 2 \in Int /\ 2 * (n \div 2) <= n /\ n <= 2 * (n \div 2) + 1
  OBVIOUS

LEMMA SecondIs ==
  \A t \in Int : Second(t) \in Int /\ Second(t) <= t /\ t <= Second(t) + 1
  BY Halves DEF Second, Ticks

\* The TTL that unmarshalRR finds for a record that was written at the given time.
LEMMA TTLThroughJSON ==
  ASSUME NEW rr \in RR, NEW at \in Int, NEW now \in Int
  PROVE  LET ttl == unmarshalRR(marshalRR(rr, at), now).TTL
         IN  /\ ttl \in Nat
             /\ \/ now + 2 * ttl <= at + 2 * rr.TTL
                \/ ttl = 0
                \/ ttl = rr.TTL /\ now > at + 2 * rr.TTL
  <1>1. PICK T \in Nat : T = rr.TTL
    BY DEF RR
  <1>2. PICK e \in Int : e = Second(at + T * Ticks) /\ e <= at + 2 * T /\ at + 2 * T <= e + 1
    BY SecondIs DEF Ticks
  <1>3. PICK d \in Int : d = e - now
    BY <1>2
  <1>4. marshalRR(rr, at).Expires = e /\ marshalRR(rr, at).TTL = T
    BY <1>1, <1>2 DEF marshalRR
  <1>5. PICK n : n = Seconds(d)
    OBVIOUS
  <1>6. unmarshalRR(marshalRR(rr, at), now).TTL = IF n >= 0 THEN n ELSE T
    BY <1>3, <1>4, <1>5 DEF unmarshalRR
  <1>7. CASE d >= 0
    <2>1. n = d \div 2
      BY <1>5, <1>7 DEF Seconds, Ticks
    <2>2. n \in Nat /\ 2 * n <= d
      BY <1>7, <2>1, Halves
    <2> QED
      BY <1>1, <1>2, <1>3, <1>6, <2>2
  <1>8. CASE d < 0
    <2>1. PICK h \in Int : h = (-d) \div 2 /\ 2 * h <= -d /\ -d <= 2 * h + 1
      BY Halves
    <2>2. n \in Int /\ n + h = 0
      BY <1>5, <1>8, <2>1 DEF Seconds, Ticks
    <2>3. CASE h = 0
      <3>1. n = 0
        BY <2>1, <2>2, <2>3
      <3>2. unmarshalRR(marshalRR(rr, at), now).TTL = 0
        BY <1>6, <3>1
      <3> QED
        BY <3>2
    <2>4. CASE h # 0
      <3>1. h >= 1
        BY <1>8, <2>1, <2>4
      <3>2. ~(n >= 0)
        BY <2>1, <2>2, <3>1
      <3>3. now > at + 2 * T
        BY <1>2, <1>3, <2>1, <3>1
      <3> QED
        BY <1>1, <1>6, <3>2, <3>3
    <2> QED
      BY <2>3, <2>4
  <1> QED
    BY <1>7, <1>8

\* The TTL that fixRecordTTL leaves.
LEMMA TTLFixed ==
  ASSUME NEW rr \in RR, NEW delta \in Nat
  PROVE  LET ttl == fixRecordTTL(rr, delta).TTL
         IN  /\ ttl \in Nat /\ ttl <= rr.TTL
             /\ 2 * ttl + delta <= 2 * rr.TTL \/ ttl = 0
  <1>1. PICK T \in Nat : T = rr.TTL
    BY DEF RR
  <1>2. PICK h \in Int : h = (T * Ticks - delta) \div Ticks /\ 2 * h <= 2 * T - delta /\ 2 * T - delta <= 2 * h + 1
    BY Halves DEF Ticks
  <1>3. fixRecordTTL(rr, delta).TTL = IF 2 * T > delta THEN h ELSE 0
    BY <1>1, <1>2 DEF fixRecordTTL, RR, Ticks
  <1> QED
    BY <1>1, <1>2, <1>3

LEMMA DeltaIs ==
  ASSUME MessagesInv, pc = "done"
  PROVE  Delta \in Nat /\ (x.renews /\ x.behind = 0 => clock - x.at <= Delta + 1)
  <1>1. x \in Exchange
    BY ExchangesAssumption DEF MessagesInv
  <1>2. x.at \in Nat /\ x.behind \in Nat
    BY <1>1 DEF Exchange
  <1>3. clock \in Nat /\ clock >= x.at /\ resp = Response(x.at)
    BY DEF MessagesInv
  <1>4. resp.LastModified = Second(x.at) /\ resp.Date = Second(x.at)
    BY <1>3 DEF Response
  <1>5. PICK b \in Int : b = Second(x.at) /\ b <= x.at /\ x.at <= b + 1
    BY <1>2, SecondIs
  <1>6. PICK c \in Int : c = Second(clock - x.behind) /\ clock - x.behind <= c + 1
    BY <1>2, <1>3, SecondIs
  <1>7. CASE x.renews
    <2>1. Delta = IF c > b THEN c - b ELSE 0
      BY <1>4, <1>5, <1>6, <1>7 DEF Delta, TimeDelta
    <2> QED
      BY <1>2, <1>3, <1>5, <1>6, <2>1
  <1>8. CASE ~x.renews
    <2>1. Delta = 0
      BY <1>4, <1>5, <1>8 DEF Delta, TimeDelta
    <2> QED
      BY <1>8, <2>1
  <1> QED
    BY <1>7, <1>8

(***************************************************************************)
(* TTLNeverGrows: neither unmarshalRR, for whatever expiry time, nor       *)
(* fixRecordTTL, for whatever Date and Last-Modified, makes a TTL longer,  *)
(* but for what doh-client's clock is behind.                              *)
(***************************************************************************)
THEOREM TTLsNeverGrow == Spec => []TTLNeverGrows
  <1>1. ASSUME MessagesInv PROVE TTLNeverGrows
    <2> USE <1>1
    <2> SUFFICES ASSUME pc = "done", NEW s \in Sections, NEW i \in DOMAIN reply[s]
                 PROVE  reply[s][i].TTL * Ticks <= Kept(s)[i].TTL * Ticks + IF x.json THEN x.behind ELSE 0
      BY DEF TTLNeverGrows
    <2>1. x.at \in Nat /\ x.behind \in Nat
      BY ExchangesAssumption DEF MessagesInv, Exchange
    <2>2. clock \in Nat /\ clock >= x.at
      BY DEF MessagesInv
    <2>3. PICK k \in RR : k = Kept(s)[i] /\ reply[s][i] = Arrived(k)
      BY ReplyRecord
    <2>4. PICK T \in Nat : T = k.TTL
      BY DEF RR
    <2>5. PICK now \in Int : now = clock - x.behind
      BY <2>1, <2>2
    <2>6. CASE x.json
      <3>1. PICK ttl : ttl = reply[s][i].TTL
        OBVIOUS
      <3>2. ttl = unmarshalRR(marshalRR(k, x.at), now).TTL
        BY <2>3, <2>5, <2>6, <3>1 DEF Arrived
      <3>3. ttl \in Nat /\ (now + 2 * ttl <= x.at + 2 * T \/ ttl = 0 \/ ttl = T)
        BY <2>1, <2>4, <2>5, <3>2, TTLThroughJSON
      <3>4. ttl * 2 <= T * 2 + x.behind
        BY <2>1, <2>2, <2>5, <3>3
      <3> QED
        BY <2>3, <2>4, <2>6, <3>1, <3>4 DEF Ticks
    <2>7. CASE ~x.json
      <3>1. PICK ttl : ttl = reply[s][i].TTL
        OBVIOUS
      <3>2. ttl = fixRecordTTL(k, Delta).TTL
        BY <2>3, <2>7, <3>1 DEF Arrived
      <3>3. ttl \in Nat /\ ttl <= T
        BY <2>4, <3>2, DeltaIs, TTLFixed
      <3>4. ttl * 2 <= T * 2 + 0
        BY <3>3
      <3> QED
        BY <2>3, <2>4, <2>7, <3>1, <3>4 DEF Ticks
    <2> QED
      BY <2>6, <2>7
  <1> QED
    BY <1>1, MessagesInvariant, PTL DEF Spec

\* The elements of a are elements of c.
Within(a, c) == \A i \in DOMAIN a : \E j \in DOMAIN c : c[j] = a[i]

LEMMA Joined ==
  ASSUME NEW a \in Seq(RR), NEW b \in Seq(RR), NEW c, c = a \o b
  PROVE  c \in Seq(RR) /\ Within(a, c) /\ Within(b, c)
  <1>1. c = a \o b
    OBVIOUS
  <1>2. c \in Seq(RR) /\ Len(c) = Len(a) + Len(b)
    BY <1>1
  <1>3. Len(a) \in Nat /\ Len(b) \in Nat /\ DOMAIN a = 1..Len(a) /\ DOMAIN b = 1..Len(b)
    OBVIOUS
  <1>4. DOMAIN c = 1..(Len(a) + Len(b))
    BY <1>2, <1>3
  <1>5. \A i \in 1..Len(a) : c[i] = a[i]
    BY <1>1, <1>3
  <1>6. \A i \in 1..Len(b) : c[Len(a) + i] = b[i]
    BY <1>1, <1>3
  <1>7. ASSUME NEW i \in DOMAIN a PROVE \E j \in DOMAIN c : c[j] = a[i]
    BY <1>3, <1>4, <1>5
  <1>8. ASSUME NEW i \in DOMAIN b PROVE \E j \in DOMAIN c : c[j] = b[i]
    <2>1. Len(a) + i \in DOMAIN c
      BY <1>3, <1>4
    <2> QED
      BY <1>3, <1>6, <2>1
  <1> QED
    BY <1>2, <1>7, <1>8 DEF Within

\* max-age is no more than the TTL of any record that arrives.
LEMMA LeastOfAll ==
  ASSUME MessagesInv, pc = "done", NEW s \in Sections, NEW i \in DOMAIN Kept(s)
  PROVE  resp.LeastTTL \in Nat /\ resp.LeastTTL <= Kept(s)[i].TTL
  <1>1. /\ \A t \in Sections : x.msg[t] \in Seq(RR)
        /\ Only(x.msg.Answer, NotOPT) = x.msg.Answer /\ Only(x.msg.Ns, NotOPT) = x.msg.Ns
    BY MessageSections
  <1>2. PICK a : a = x.msg.Answer
    OBVIOUS
  <1>3. PICK b : b = x.msg.Ns
    OBVIOUS
  <1>4. PICK c : c = Only(x.msg.Extra, NotOPT)
    OBVIOUS
  <1>5. a \in Seq(RR) /\ b \in Seq(RR) /\ x.msg.Extra \in Seq(RR)
    BY <1>1, <1>2, <1>3 DEF Sections
  <1>6. c \in Seq(RR)
    BY <1>4, <1>5, OnlyElements
  <1>7. PICK all : all = (a \o b) \o c
    OBVIOUS
  <1>8. /\ all \in Seq(RR)
        /\ \A p \in DOMAIN a : \E j \in DOMAIN all : all[j] = a[p]
        /\ \A p \in DOMAIN b : \E j \in DOMAIN all : all[j] = b[p]
        /\ \A p \in DOMAIN c : \E j \in DOMAIN all : all[j] = c[p]
    <2>1. PICK ab : ab = a \o b
      OBVIOUS
    <2>2. ab \in Seq(RR) /\ Within(a, ab) /\ Within(b, ab)
      BY <1>5, <2>1, Joined
    <2>3. all \in Seq(RR) /\ Within(ab, all) /\ Within(c, all)
      BY <1>6, <1>7, <2>1, <2>2, Joined
    <2> QED
      BY <2>2, <2>3 DEF Within
  <1>9. Counted(Answered) = all
    BY <1>2, <1>3, <1>4, <1>7 DEF Counted, Answered
  <1>10. PICK k : k = Kept(s)[i]
    OBVIOUS
  <1>11. \E j \in DOMAIN all : all[j] = k
    <2>1. PICK q : q = Only(x.msg[s], NotOPT)
      OBVIOUS
    <2>2. PICK kinds : kinds = IF x.json THEN Readable ELSE NotOPT
      OBVIOUS
    <2>3. kinds \subseteq NotOPT
      BY <2>2, NotOPTs
    <2>4. q \in Seq(RR) /\ Kept(s) = Only(q, kinds)
      BY <1>1, <2>1, <2>2, <2>3, OnlyElements, OnlyTwice DEF Kept
    <2>5. PICK p \in DOMAIN q : k = q[p]
      BY <1>10, <2>4, OnlyElements
    <2>6. q = a \/ q = b \/ q = c
      BY <1>1, <1>2, <1>3, <1>4, <2>1 DEF Sections
    <2> QED
      BY <1>8, <2>5, <2>6
  <1>12. PICK ttls : ttls = {all[j].TTL : j \in DOMAIN all}
    OBVIOUS
  <1>13. ttls \in SUBSET Nat /\ k.TTL \in ttls
    <2>1. \A j \in DOMAIN all : all[j] \in RR
      BY <1>8
    <2>2. \A rr \in RR : rr.TTL \in Nat
      BY DEF RR
    <2>3. \A j \in DOMAIN all : all[j].TTL \in Nat
      BY <2>1, <2>2
    <2> QED
      BY <1>11, <1>12, <2>3
  <1>14. resp.LeastTTL = Min(ttls)
    <2>1. LeastTTL(Answered).LeastTTL = IF ttls = {} THEN 0 ELSE Min(ttls)
      BY <1>9, <1>12 DEF LeastTTL
    <2>2. resp = Response(x.at)
      BY DEF MessagesInv
    <2>3. resp.LeastTTL = LeastTTL(Answered).LeastTTL
      BY <2>2 DEF Response
    <2> QED
      BY <1>13, <2>1, <2>3
  <1>15. Min(ttls) \in ttls /\ \A t \in ttls : Min(ttls) <= t
    <2>1. \E n \in ttls : \A m \in ttls : n <= m
      BY <1>13, LeastNumber
    <2> QED
      BY <2>1 DEF Min
  <1> QED
    BY <1>10, <1>13, <1>14, <1>15

(***************************************************************************)
(* ExpiresOnTime: of a response that HTTP caches kept up to its max-age,   *)
(* which is the least TTL, no record lives longer than the resolver said:  *)
(* the cut of the expiry time to a second, the division towards zero and   *)
(* the TTL that unmarshalRR leaves for a time in the past never add up to  *)
(* more.                                                                   *)
(***************************************************************************)
THEOREM RecordsExpireOnTime == Spec => []ExpiresOnTime
  <1>1. ASSUME MessagesInv PROVE ExpiresOnTime
    <2> USE <1>1
    <2> SUFFICES ASSUME pc = "done", x.behind = 0, x.json \/ x.renews, WithinMaxAge,
                        NEW s \in Sections, NEW i \in DOMAIN reply[s]
                 PROVE  clock + reply[s][i].TTL * Ticks
                          <= x.at + Kept(s)[i].TTL * Ticks + IF x.json THEN 0 ELSE Ticks - 1
      BY DEF ExpiresOnTime
    <2>1. x.at \in Nat
      BY ExchangesAssumption DEF MessagesInv, Exchange
    <2>2. clock \in Nat /\ clock >= x.at
      BY DEF MessagesInv
    <2>3. PICK k \in RR : k = Kept(s)[i] /\ reply[s][i] = Arrived(k) /\ i \in DOMAIN Kept(s)
      BY ReplyRecord
    <2>4. PICK T \in Nat : T = k.TTL
      BY DEF RR
    <2>5. clock <= x.at + 2 * T
      <3>1. PICK l \in Nat : l = resp.LeastTTL /\ l <= T
        BY <2>3, <2>4, LeastOfAll
      <3>2. clock - x.at <= l * 2
        BY <3>1 DEF WithinMaxAge, Ticks
      <3> QED
        BY <2>1, <2>2, <3>1, <3>2
    <2>6. PICK ttl : ttl = reply[s][i].TTL
      OBVIOUS
    <2>7. CASE x.json
      <3>1. clock - x.behind = clock
        BY <2>2
      <3>2. ttl = unmarshalRR(marshalRR(k, x.at), clock).TTL
        BY <2>3, <2>6, <2>7, <3>1 DEF Arrived
      <3>3. ttl \in Nat /\ (clock + 2 * ttl <= x.at + 2 * T \/ ttl = 0 \/ clock > x.at + 2 * T)
        BY <2>1, <2>2, <2>4, <3>2, TTLThroughJSON
      <3>4. clock + ttl * 2 <= x.at + T * 2 + 0
        BY <2>1, <2>2, <2>5, <3>3
      <3> QED
        BY <2>3, <2>4, <2>6, <2>7, <3>4 DEF Ticks
    <2>8. CASE ~x.json
      <3>1. ttl = fixRecordTTL(k, Delta).TTL
        BY <2>3, <2>6, <2>8 DEF Arrived
      <3>2. PICK d \in Nat : d = Delta /\ clock - x.at <= d + 1
        BY <2>8, DeltaIs
      <3>3. ttl \in Nat /\ (2 * ttl + d <= 2 * T \/ ttl = 0)
        BY <2>4, <3>1, <3>2, TTLFixed
      <3>4. clock + ttl * 2 <= x.at + T * 2 + (2 - 1)
        BY <2>1, <2>2, <2>5, <3>2, <3>3
      <3> QED
        BY <2>3, <2>4, <2>6, <2>8, <3>4 DEF Ticks
    <2> QED
      BY <2>7, <2>8
  <1> QED
    BY <1>1, MessagesInvariant, PTL DEF Spec
===============================================================================
