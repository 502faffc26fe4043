------------------------- MODULE RequestExchangeProofs -------------------------
(***************************************************************************)
(* The hex file of a request: what is placed in the buffer, and what is    *)
(* refused, for every metadata with the layout of the shipped ones, every  *)
(* file and every action.                                                  *)
(***************************************************************************)
EXTENDS RequestExchange, TLAPS

-----------------------------------------------------------------------------
(***************************************************************************)
(* Lemmas about the operators of HexFile                                   *)
(***************************************************************************)
\* A byte, as a number with bounds.
LEMMA ByteBounds ==
  ASSUME NEW n \in Byte
  PROVE  n \in Int /\ 0 <= n /\ n <= 255
BY DEF Byte

\* Likewise an address of 14 bits.
LEMMA AddressBounds ==
  /\ MaxAddress \in Int
  /\ \A n : n \in Addresses <=> n \in Int /\ 0 <= n /\ n <= MaxAddress
<1>1. MaxAddress \in Int
  BY DEF MaxAddress
<1> QED
  BY <1>1 DEF Addresses

\* A short halved towards zero: the word its address lies in, or a negative
\* number when the address is in the upper half; 65535 becomes 0.
LEMMA HalfOfWord ==
  ASSUME NEW low \in Byte, NEW high \in Byte, NEW a, a = HalfOf(Word16(low, high)),
         NEW n, n = high * 256 + low, NEW s, s = IF n = 65535 THEN 0 ELSE n \div 2
  PROVE  /\ a \in Int /\ a <= 16383 /\ s \in Nat
         /\ a >= 0 => a = s
         /\ a < 0  => s >= 16384
<1>1. /\ low \in Int /\ 0 <= low /\ low <= 255
      /\ high \in Int /\ 0 <= high /\ high <= 255
  BY ByteBounds
<1>2. n \in Int /\ 0 <= n /\ n <= 65535 /\ low + 256 * high = n
  BY <1>1
<1>3. CASE n < 32768
  <2>1. Word16(low, high) = n /\ a = n \div 2
    BY <1>2, <1>3 DEF Word16, HalfOf
  <2>2. s = n \div 2 /\ n \div 2 \in Int /\ 0 <= n \div 2 /\ n \div 2 <= 16383
    BY <1>2, <1>3
  <2> QED
    BY <2>1, <2>2
<1>4. CASE n >= 32768
  <2>1. PICK p \in Int : p = 65536 - n
    BY <1>2
  <2>2. Word16(low, high) = -p /\ 1 <= p /\ p <= 32768
    BY <1>2, <1>4, <2>1 DEF Word16
  <2>3. a = -(p \div 2)
    BY <2>1, <2>2 DEF HalfOf
  <2>4. CASE n = 65535
    <3>1. p \div 2 = 0 /\ s = 0
      BY <2>1, <2>4
    <3> QED
      BY <2>3, <3>1
  <2>5. CASE n # 65535
    <3>1. p \div 2 \in Int /\ p \div 2 >= 1
      BY <1>2, <2>1, <2>2, <2>5
    <3>2. s \in Int /\ s >= 16384
      BY <1>2, <1>4, <2>5
    <3> QED
      BY <2>3, <3>1, <3>2
  <2> QED
    BY <2>4, <2>5
<1> QED
  BY <1>2, <1>3, <1>4

\* The 16 bits of a short.
LEMMA Word16Value ==
  ASSUME NEW low \in Byte, NEW high \in Byte
  PROVE  Word16(low, high) \in Int /\ Word16(low, high) % 65536 = low + 256 * high
<1>1. PICK n \in Int : n = low + 256 * high /\ 0 <= n /\ n <= 65535
  BY ByteBounds
<1>2. Word16(low, high) = IF n < 32768 THEN n ELSE n - 65536
  BY <1>1 DEF Word16
<1>3. n % 65536 = n /\ (n - 65536) % 65536 = n
  BY <1>1
<1> QED
  BY <1>1, <1>2, <1>3

\* SelectInSeq finds the only bank that has an address...
LEMMA BankOfInside ==
  ASSUME NEW banks \in Seq(BankMetadata), NEW a \in Int, NEW k \in DOMAIN banks,
         \A j \in DOMAIN banks : InBank(banks[j], a) <=> j = k
  PROVE  BankOf(banks, a) = k
<1> DEFINE I == {i \in 1 .. Len(banks) : InBank(banks[i], a)}
<1>1. I = {k}
  OBVIOUS
<1>2. Min({k}) = k
  BY DEF Min
<1> QED
  BY <1>1, <1>2 DEF BankOf, SelectInSeq

\* ... and 0 when there is none.
LEMMA BankOfOutside ==
  ASSUME NEW banks \in Seq(BankMetadata), NEW a \in Int,
         \A j \in DOMAIN banks : ~InBank(banks[j], a)
  PROVE  BankOf(banks, a) = 0
<1> DEFINE I == {i \in 1 .. Len(banks) : InBank(banks[i], a)}
<1>1. I = {}
  OBVIOUS
<1> QED
  BY <1>1 DEF BankOf, SelectInSeq

\* The words of a packet with whole words.
LEMMA PairsOfData ==
  ASSUME NEW data \in Seq(Byte)
  PROVE  /\ Pairs(data) \in Seq(Int) /\ Len(Pairs(data)) = Len(data) \div 2
         /\ \A i \in 1 .. Len(data) \div 2 :
              Pairs(data)[i] = Word16(data[2 * i - 1], data[2 * i])
<1> DEFINE n == Len(data) \div 2
<1>1. n \in Nat /\ \A i \in 1 .. n : 2 * i - 1 \in 1 .. Len(data) /\ 2 * i \in 1 .. Len(data)
  OBVIOUS
<1>2. \A i \in 1 .. n : data[2 * i - 1] \in Byte /\ data[2 * i] \in Byte
  BY <1>1
<1>3. ASSUME NEW i \in 1 .. n PROVE Word16(data[2 * i - 1], data[2 * i]) \in Int
  <2>1. PICK x \in Byte, y \in Byte : x = data[2 * i - 1] /\ y = data[2 * i]
    BY <1>2
  <2>2. Word16(x, y) \in Int
    BY Word16Value
  <2> QED
    BY <2>1, <2>2
<1> QED
  BY <1>1, <1>3 DEF Pairs

\* What a packet says of an address, or what was there before.
Put(data, a, x, before) ==
  LET i == x - a + 1
  IN IF i \in 1 .. Len(data) \div 2 THEN Word16(data[2 * i - 1], data[2 * i]) ELSE before

\* Positions in a bank and addresses.
LEMMA PositionOf ==
  ASSUME NEW a \in Int, NEW start \in Int, NEW length \in Int, NEW n \in Int,
         NEW first \in Int, first = a - start + 1
  PROVE  /\ first + n - 1 > length <=> ~(a + n - 1 < start + length)
         /\ \A j \in Int : /\ (start + j - 1) - a + 1 = j - first + 1
                          /\ j - first + 1 \in 1 .. n <=> j \in first .. first + n - 1
OBVIOUS

\* The addresses of a packet that ends in the bank in which it starts.
LEMMA WindowInBank ==
  ASSUME NEW a \in Int, NEW start \in Int, NEW length \in Int, NEW n \in Int, NEW x \in Int,
         start <= a, a + n - 1 < start + length, x - a + 1 \in 1 .. n
  PROVE  start <= x /\ x < start + length
OBVIOUS

\* A packet stored in the locations that start at an address.
Stored(locations, start, a, data, r) ==
  /\ r.ok <=> a + (Len(data) \div 2) - 1 < start + Len(locations)
  /\ r.ok => /\ r.to \in Seq(Int) /\ Len(r.to) = Len(locations)
             /\ \A j \in 1 .. Len(locations) :
                  r.to[j] = Put(data, a, start + j - 1, locations[j])

LEMMA StoreWords ==
  ASSUME NEW locations \in Seq(Int), NEW start \in Int, NEW a \in Int, start <= a,
         NEW data \in Seq(Byte)
  PROVE  Stored(locations, start, a, data, Store(locations, a - start + 1, Pairs(data)))
<1> DEFINE words == Pairs(data)
<1>0. PICK n, r : n = Len(data) \div 2 /\ r = Store(locations, a - start + 1, Pairs(data))
  OBVIOUS
<1>1. n \in Nat /\ words \in Seq(Int) /\ Len(words) = n
  BY <1>0, PairsOfData
<1> HIDE DEF words
<1>2. PICK first \in Int : first = a - start + 1
  OBVIOUS
<1>3. PICK length \in Nat : length = Len(locations)
  OBVIOUS
<1> DEFINE to == [k \in 1 .. length |->
                   IF k \in first .. first + n - 1 THEN words[k - first + 1] ELSE locations[k]]
<1>4. r = IF first + n - 1 > length THEN Failed ELSE [ok |-> TRUE, to |-> to]
  <2>1. r = Store(locations, first, words)
    BY <1>0, <1>2 DEF words
  <2>2. DOMAIN locations = 1 .. length
    BY <1>3
  <2> QED
    BY <1>1, <1>3, <2>1, <2>2 DEF Store
<1>5. r.ok <=> a + n - 1 < start + length
  <2>1. first + n - 1 > length <=> ~(a + n - 1 < start + length)
    BY <1>1, <1>2, <1>3, PositionOf
  <2> HIDE DEF to
  <2> QED
    BY <1>4, <2>1 DEF Failed
<1>6. r.ok => r.to = to
  <2> HIDE DEF to
  <2> QED
    BY <1>4 DEF Failed
<1>7. ASSUME NEW j \in 1 .. length
      PROVE  to[j] \in Int /\ to[j] = Put(data, a, start + j - 1, locations[j])
  <2>1. PICK i \in Int : i = j - first + 1
    BY <1>2
  <2>2. (start + j - 1) - a + 1 = i /\ (i \in 1 .. n <=> j \in first .. first + n - 1)
    BY <1>1, <1>2, <1>3, <2>1, PositionOf
  <2>3. to[j] = IF i \in 1 .. n THEN words[i] ELSE locations[j]
    BY <2>1, <2>2
  <2>4. ASSUME i \in 1 .. n
        PROVE words[i] \in Int /\ words[i] = Word16(data[2 * i - 1], data[2 * i])
    BY <1>0, <1>1, <2>4, PairsOfData DEF words
  <2>5. locations[j] \in Int
    BY <1>3
  <2> HIDE DEF to
  <2> QED
    BY <1>0, <2>2, <2>3, <2>4, <2>5 DEF Put
<1>8. to \in Seq(Int) /\ Len(to) = length
  <2>1. to \in [1 .. length -> Int]
    BY <1>7
  <2> HIDE DEF to
  <2> QED
    BY <1>3, <2>1
<1> HIDE DEF to
<1> QED
  BY <1>0, <1>3, <1>5, <1>6, <1>7, <1>8 DEF Stored

-----------------------------------------------------------------------------
(***************************************************************************)
(* One packet in a buffer                                                  *)
(***************************************************************************)
\* Metadata as generateRequest uses it: a layout, trimmed or not.
Metadata(m) ==
  /\ m \in DeviceBufferMetadata /\ Layout(m)
  /\ m.areas \in {{"p", "d", "c"}, {"p"}, {"d"}, {"c"}}
  /\ "p" \notin m.areas => m.program = <<>>

\* A buffer with a place for everything in the metadata.
BufferOf(b, m) ==
  /\ b \in [program : Seq(Seq(Int)), data : Seq(Seq(Int)), config : Seq(Int)]
  /\ Len(b.program) = Len(m.program) /\ Len(b.data) = Len(m.data)
  /\ Len(b.config) = Len(m.config)
  /\ \A k \in DOMAIN m.program : Len(b.program[k]) = m.program[k].length
  /\ \A k \in DOMAIN m.data : Len(b.data[k]) = m.data[k].length

\* The bank of an address is found.
LEMMA AddressInBank ==
  ASSUME NEW m, Metadata(m), NEW a \in Int, NEW k \in DOMAIN m.program,
         InBank(m.program[k], a)
  PROVE  /\ a \in Addresses
         /\ \A j \in DOMAIN m.program : InBank(m.program[j], a) <=> j = k
         /\ \A j \in DOMAIN m.config : m.config[j].addr # a
         /\ BankOf(m.program, a) = k /\ AreaOf(m, a) = "p"
<1>1. m.program \in Seq(BankMetadata) /\ m.program[k] \in BankMetadata
  BY DEF Metadata, DeviceBufferMetadata
<1>2. a \in Addresses
  <2>1. m.program[k].start + m.program[k].length - 1 \in Addresses
    BY DEF Metadata, Layout
  <2>2. PICK first \in Nat, length \in Nat :
          first = m.program[k].start /\ length = m.program[k].length
    BY <1>1 DEF BankMetadata
  <2>3. first <= a /\ a < first + length
    BY <2>2 DEF InBank
  <2>4. MaxAddress \in Int /\ first + length - 1 <= MaxAddress
    BY <2>1, <2>2, AddressBounds
  <2>5. 0 <= a /\ a <= MaxAddress
    BY <2>3, <2>4
  <2> QED
    BY <2>5, AddressBounds
<1>3. \A j \in DOMAIN m.program : InBank(m.program[j], a) <=> j = k
  BY <1>2 DEF Metadata, Layout
<1>4. \A j \in DOMAIN m.config : m.config[j].addr # a
  BY DEF Metadata, Layout
<1>5. BankOf(m.program, a) = k
  BY <1>1, <1>3, BankOfInside
<1>6. k # 0 /\ "p" \in m.areas
  BY <1>1 DEF Metadata
<1> QED
  BY <1>2, <1>3, <1>4, <1>5, <1>6 DEF AreaOf

\* An address outside of the program memory is one of the configuration, if the
\* action left that in, or none.
LEMMA AddressOutsideBanks ==
  ASSUME NEW m, Metadata(m), NEW a \in Int, a <= MaxAddress,
         \A k \in DOMAIN m.program : ~InBank(m.program[k], a)
  PROVE  AreaOf(m, a) =
           IF m.areas = {"p", "d", "c"} /\ (\E k \in DOMAIN m.config : m.config[k].addr = a)
             THEN "c" ELSE "none"
<1>1. m.program \in Seq(BankMetadata) /\ m.data \in Seq(BankMetadata)
  BY DEF Metadata, DeviceBufferMetadata
<1>2. BankOf(m.program, a) = 0
  BY <1>1, BankOfOutside
<1>3. ASSUME "p" \in m.areas PROVE BankOf(m.data, a) = 0
  <2>1. ASSUME NEW j \in DOMAIN m.data, InBank(m.data[j], a) PROVE FALSE
    <3>0. m.data[j] \in BankMetadata
      BY <1>1
    <3>1. m.data[j].start \in Nat
      BY <3>0 DEF BankMetadata
    <3>2. 0 <= a
      BY <2>1, <3>1 DEF InBank
    <3>3. a \in Addresses
      BY <3>2, AddressBounds
    <3> QED
      BY <1>3, <2>1, <3>3 DEF Metadata, Layout
  <2> QED
    BY <1>1, <2>1, BankOfOutside
<1>4. m.areas = {"p", "d", "c"} <=> "p" \in m.areas /\ "d" \in m.areas /\ "c" \in m.areas
  BY DEF Metadata
<1> QED
  BY <1>2, <1>3, <1>4 DEF AreaOf

\* The packet that starts at word a.
Packet(s, data) == [ok |-> TRUE, start |-> s, data |-> data]

\* Is there room for the words of a packet?
Fits16(m, a, n) ==
  \/ \E k \in DOMAIN m.program :
       InBank(m.program[k], a) /\ a + n - 1 < m.program[k].start + m.program[k].length
  \/ /\ m.areas = {"p", "d", "c"} /\ \E k \in DOMAIN m.config : m.config[k].addr = a
     /\ a + n - 1 < m.config[1].addr + Len(m.config)

\* What placing a packet does to a buffer.
Places(b, m, s, data, r) ==
  LET a == HalfOf(s)
  IN /\ r.ok <=> Len(data) % 2 = 0 /\ Fits16(m, a, Len(data) \div 2)
     /\ r.ok =>
          /\ BufferOf(r.buffer, m) /\ r.buffer.data = b.data
          /\ \A k \in DOMAIN m.program : \A j \in 1 .. m.program[k].length :
               r.buffer.program[k][j] =
                 Put(data, a, m.program[k].start + j - 1, b.program[k][j])
          /\ \A k \in DOMAIN m.config :
               r.buffer.config[k] = Put(data, a, m.config[k].addr, b.config[k])

\* A packet whose first address is in a bank of the program memory.
LEMMA PlacedInBank ==
  ASSUME NEW m, Metadata(m), NEW b, BufferOf(b, m), NEW s, NEW data \in Seq(Byte),
         HalfOf(s) \in Int, NEW bank \in DOMAIN m.program, InBank(m.program[bank], HalfOf(s))
  PROVE  Places(b, m, s, data, UpdateBuffer(b, m, Packet(s, data)))
<1> DEFINE r == UpdateBuffer(b, m, Packet(s, data))
<1>1. PICK a \in Int : a = HalfOf(s)
  OBVIOUS
<1>2. PICK n \in Nat : n = Len(data) \div 2
  OBVIOUS
<1>3. m.program \in Seq(BankMetadata) /\ m.config \in Seq(LocationMetadata)
  BY DEF Metadata, DeviceBufferMetadata
<1>4. PICK start \in Nat, length \in Nat :
         start = m.program[bank].start /\ length = m.program[bank].length
  <2>1. m.program[bank] \in BankMetadata
    BY <1>3
  <2> QED
    BY <2>1 DEF BankMetadata
<1>5. start <= a
  BY <1>1, <1>4 DEF InBank
<1>6. AreaOf(m, a) = "p" /\ BankOf(m.program, a) = bank
  BY <1>1, AddressInBank
<1> DEFINE st == Store(b.program[bank], a - start + 1, Pairs(data))
           nb == [b EXCEPT !.program[bank] = st.to]
<1>7. /\ b.program \in Seq(Seq(Int)) /\ Len(b.program) = Len(m.program)
      /\ \A k \in DOMAIN m.program : Len(b.program[k]) = m.program[k].length
  BY DEF BufferOf
<1>8. bank \in DOMAIN b.program /\ b.program[bank] \in Seq(Int) /\ Len(b.program[bank]) = length
  BY <1>3, <1>4, <1>7
<1>9. /\ st.ok <=> a + n - 1 < start + length
      /\ st.ok => /\ st.to \in Seq(Int) /\ Len(st.to) = length
                  /\ \A j \in 1 .. length :
                       st.to[j] = Put(data, a, start + j - 1, b.program[bank][j])
  <2>1. PICK l \in Seq(Int) : l = b.program[bank] /\ Len(l) = length
    BY <1>8
  <2>2. Stored(l, start, a, data, Store(l, a - start + 1, Pairs(data)))
    <3> HIDE DEF st, nb, r
    <3> QED
      BY <1>5, StoreWords
  <2>3. Stored(l, start, a, data, st)
    BY <2>1, <2>2
  <2> HIDE DEF st
  <2> QED
    BY <1>2, <2>1, <2>3 DEF Stored
<1>10. r = IF Len(data) % 2 = 1 \/ ~st.ok THEN Failed ELSE [ok |-> TRUE, buffer |-> nb]
  <2>1. HalfOf(Packet(s, data).start) = a /\ Packet(s, data).data = data
    BY <1>1 DEF Packet
  <2> QED
    BY <1>4, <1>6, <2>1 DEF UpdateBuffer
<1>11. Fits16(m, a, n) <=> a + n - 1 < start + length
  <2>1. \A k \in DOMAIN m.program : InBank(m.program[k], a) <=> k = bank
    BY <1>1, AddressInBank
  <2>2. \A k \in DOMAIN m.config : m.config[k].addr # a
    BY <1>1, AddressInBank
  <2> QED
    BY <1>4, <2>1, <2>2 DEF Fits16
<1>12. /\ r.ok <=> Len(data) % 2 = 0 /\ st.ok
       /\ r.ok => r.buffer = nb
  <2>1. Len(data) % 2 = 1 <=> ~(Len(data) % 2 = 0)
    OBVIOUS
  <2> HIDE DEF st, nb, r
  <2> QED
    BY <1>9, <1>10, <2>1 DEF Failed
<1>13. ASSUME st.ok
       PROVE  /\ BufferOf(nb, m) /\ nb.data = b.data
              /\ \A k \in DOMAIN m.program : \A j \in 1 .. m.program[k].length :
                   nb.program[k][j] = Put(data, a, m.program[k].start + j - 1, b.program[k][j])
              /\ \A k \in DOMAIN m.config :
                   nb.config[k] = Put(data, a, m.config[k].addr, b.config[k])
  <2> HIDE DEF st
  <2>1. b = [program |-> b.program, data |-> b.data, config |-> b.config]
    BY DEF BufferOf
  <2>2. /\ nb = [program |-> nb.program, data |-> nb.data, config |-> nb.config]
        /\ nb.program = [b.program EXCEPT ![bank] = st.to]
        /\ nb.data = b.data /\ nb.config = b.config
    BY <2>1
  <2> HIDE DEF nb
  <2>3. /\ nb.program[bank] = st.to
        /\ \A k \in DOMAIN m.program \ {bank} : nb.program[k] = b.program[k]
        /\ nb.program \in Seq(Seq(Int)) /\ Len(nb.program) = Len(m.program)
    <3>1. st.to \in Seq(Int)
      BY <1>9, <1>13
    <3>2. DOMAIN m.program = DOMAIN b.program
      BY <1>3, <1>7
    <3> QED
      BY <1>7, <1>8, <2>2, <3>1, <3>2
  <2>4. \A k \in DOMAIN m.program : Len(nb.program[k]) = m.program[k].length
    BY <1>4, <1>7, <1>9, <1>13, <2>3
  <2>5. BufferOf(nb, m)
    BY <2>2, <2>3, <2>4 DEF BufferOf
  <2>6. ASSUME NEW x \in Int, x - a + 1 \in 1 .. n PROVE InBank(m.program[bank], x)
    <3>1. start <= x /\ x < start + length
      BY <1>5, <1>9, <1>13, <2>6, WindowInBank
    <3> QED
      BY <1>4, <3>1 DEF InBank
  <2>7. ASSUME NEW k \in DOMAIN m.program, NEW j \in 1 .. m.program[k].length
        PROVE  nb.program[k][j] = Put(data, a, m.program[k].start + j - 1, b.program[k][j])
    <3>1. CASE k = bank
      BY <1>4, <1>9, <1>13, <2>3, <3>1
    <3>2. CASE k # bank
      <4>1. m.program[k] \in BankMetadata
        BY <1>3
      <4>2. PICK from \in Nat, count \in Nat :
               from = m.program[k].start /\ count = m.program[k].length
        BY <4>1 DEF BankMetadata
      <4>3. PICK x \in Int : x = from + j - 1
        BY <4>2
      <4>4. from <= x /\ x < from + count
        BY <4>2, <4>3
      <4>5. InBank(m.program[k], x)
        BY <4>2, <4>4 DEF InBank
      <4>6. ~InBank(m.program[bank], x)
        BY <3>2, <4>5, AddressInBank
      <4>7. ~(x - a + 1 \in 1 .. n)
        BY <2>6, <4>6
      <4>8. nb.program[k] = b.program[k]
        BY <2>3, <3>2
      <4> QED
        BY <1>2, <4>2, <4>3, <4>7, <4>8 DEF Put
    <3> QED
      BY <3>1, <3>2
  <2>8. ASSUME NEW k \in DOMAIN m.config
        PROVE  nb.config[k] = Put(data, a, m.config[k].addr, b.config[k])
    <3>1. m.config[k] \in LocationMetadata
      BY <1>3
    <3>2. PICK x \in Int : x = m.config[k].addr
      BY <3>1 DEF LocationMetadata
    <3>3. ~InBank(m.program[bank], x)
      BY <3>2, AddressInBank
    <3>4. ~(x - a + 1 \in 1 .. n)
      BY <2>6, <3>3
    <3> QED
      BY <1>2, <2>2, <3>2, <3>4 DEF Put
  <2> QED
    BY <2>2, <2>5, <2>7, <2>8
<1> HIDE DEF st, nb, r
<1>14. r.ok <=> Len(data) % 2 = 0 /\ Fits16(m, HalfOf(s), Len(data) \div 2)
  BY <1>1, <1>2, <1>9, <1>11, <1>12
<1>15. ASSUME r.ok
       PROVE  /\ BufferOf(r.buffer, m) /\ r.buffer.data = b.data
              /\ \A k \in DOMAIN m.program : \A j \in 1 .. m.program[k].length :
                   r.buffer.program[k][j] =
                     Put(data, HalfOf(s), m.program[k].start + j - 1, b.program[k][j])
              /\ \A k \in DOMAIN m.config :
                   r.buffer.config[k] = Put(data, HalfOf(s), m.config[k].addr, b.config[k])
  <2>1. r.buffer = nb /\ st.ok
    BY <1>12, <1>15
  <2> QED
    BY <1>1, <1>13, <2>1
<1> QED
  BY <1>14, <1>15 DEF Places, r

\* A packet whose first address is a location of the configuration.
LEMMA PlacedInConfig ==
  ASSUME NEW m, Metadata(m), NEW b, BufferOf(b, m), NEW s, NEW data \in Seq(Byte),
         HalfOf(s) \in Int, HalfOf(s) <= MaxAddress, m.areas = {"p", "d", "c"},
         \A k \in DOMAIN m.program : ~InBank(m.program[k], HalfOf(s)),
         NEW location \in DOMAIN m.config, m.config[location].addr = HalfOf(s)
  PROVE  Places(b, m, s, data, UpdateBuffer(b, m, Packet(s, data)))
<1> DEFINE r == UpdateBuffer(b, m, Packet(s, data))
<1>1. PICK a \in Int : a = HalfOf(s)
  OBVIOUS
<1>2. PICK n \in Nat : n = Len(data) \div 2
  OBVIOUS
<1>3. m.program \in Seq(BankMetadata) /\ m.config \in Seq(LocationMetadata)
  BY DEF Metadata, DeviceBufferMetadata
<1>4. PICK start \in Nat, length \in Nat :
         start = m.config[1].addr /\ length = Len(m.config)
  <2>1. 1 \in DOMAIN m.config /\ m.config[1] \in LocationMetadata
    BY <1>3
  <2> QED
    BY <1>3, <2>1 DEF LocationMetadata
<1>5. \A k \in 1 .. length :
         /\ m.config[k].addr = start + k - 1
         /\ \A j \in DOMAIN m.program : ~InBank(m.program[j], start + k - 1)
  <2>1. ASSUME NEW k \in 1 .. length
        PROVE  /\ m.config[k].addr = start + k - 1
               /\ \A j \in DOMAIN m.program : ~InBank(m.program[j], m.config[k].addr)
    <3>1. k \in DOMAIN m.config
      BY <1>3, <1>4
    <3> QED
      BY <1>4, <3>1 DEF Metadata, Layout
  <2> QED
    BY <2>1
<1>6. start <= a
  <2>1. location \in 1 .. length
    BY <1>3, <1>4
  <2>2. a = start + location - 1
    BY <1>1, <1>5, <2>1
  <2> QED
    BY <2>1, <2>2
<1>7. AreaOf(m, a) = "c"
  BY <1>1, AddressOutsideBanks
<1> DEFINE st == Store(b.config, a - start + 1, Pairs(data))
           nb == [b EXCEPT !.config = st.to]
<1>8. b.config \in Seq(Int) /\ Len(b.config) = length
  BY <1>4 DEF BufferOf
<1>9. /\ st.ok <=> a + n - 1 < start + length
      /\ st.ok => /\ st.to \in Seq(Int) /\ Len(st.to) = length
                  /\ \A j \in 1 .. length :
                       st.to[j] = Put(data, a, start + j - 1, b.config[j])
  <2>1. PICK l \in Seq(Int) : l = b.config /\ Len(l) = length
    BY <1>8
  <2>2. Stored(l, start, a, data, Store(l, a - start + 1, Pairs(data)))
    <3> HIDE DEF st, nb, r
    <3> QED
      BY <1>6, StoreWords
  <2>3. Stored(l, start, a, data, st)
    BY <2>1, <2>2
  <2> HIDE DEF st
  <2> QED
    BY <1>2, <2>1, <2>3 DEF Stored
<1>10. r = IF Len(data) % 2 = 1 \/ ~st.ok THEN Failed ELSE [ok |-> TRUE, buffer |-> nb]
  <2>1. HalfOf(Packet(s, data).start) = a /\ Packet(s, data).data = data
    BY <1>1 DEF Packet
  <2> QED
    BY <1>4, <1>7, <2>1 DEF UpdateBuffer
<1>11. Fits16(m, a, n) <=> a + n - 1 < start + length
  BY <1>1, <1>4 DEF Fits16
<1>12. /\ r.ok <=> Len(data) % 2 = 0 /\ st.ok
       /\ r.ok => r.buffer = nb
  <2>1. Len(data) % 2 = 1 <=> ~(Len(data) % 2 = 0)
    OBVIOUS
  <2> HIDE DEF st, nb, r
  <2> QED
    BY <1>9, <1>10, <2>1 DEF Failed
<1>13. ASSUME st.ok
       PROVE  /\ BufferOf(nb, m) /\ nb.data = b.data
              /\ \A k \in DOMAIN m.program : \A j \in 1 .. m.program[k].length :
                   nb.program[k][j] = Put(data, a, m.program[k].start + j - 1, b.program[k][j])
              /\ \A k \in DOMAIN m.config :
                   nb.config[k] = Put(data, a, m.config[k].addr, b.config[k])
  <2> HIDE DEF st
  <2>1. b = [program |-> b.program, data |-> b.data, config |-> b.config]
    BY DEF BufferOf
  <2>2. /\ nb = [program |-> nb.program, data |-> nb.data, config |-> nb.config]
        /\ nb.program = b.program /\ nb.data = b.data /\ nb.config = st.to
    BY <2>1
  <2> HIDE DEF nb
  <2>3. BufferOf(nb, m)
    BY <1>4, <1>9, <1>13, <2>2 DEF BufferOf
  <2>4. ASSUME NEW x \in Int, x - a + 1 \in 1 .. n, NEW k \in DOMAIN m.program
        PROVE  ~InBank(m.program[k], x)
    <3>1. start <= x /\ x < start + length
      BY <1>6, <1>9, <1>13, <2>4, WindowInBank
    <3>2. PICK i \in 1 .. length : x = start + i - 1
      BY <3>1
    <3> QED
      BY <1>5, <3>2
  <2>5. ASSUME NEW k \in DOMAIN m.program, NEW j \in 1 .. m.program[k].length
        PROVE  nb.program[k][j] = Put(data, a, m.program[k].start + j - 1, b.program[k][j])
    <3>1. m.program[k] \in BankMetadata
      BY <1>3
    <3>2. PICK from \in Nat, count \in Nat :
             from = m.program[k].start /\ count = m.program[k].length
      BY <3>1 DEF BankMetadata
    <3>3. PICK x \in Int : x = from + j - 1
      BY <3>2
    <3>4. from <= x /\ x < from + count
      BY <3>2, <3>3
    <3>5. InBank(m.program[k], x)
      BY <3>2, <3>4 DEF InBank
    <3>6. ~(x - a + 1 \in 1 .. n)
      BY <2>4, <3>5
    <3> QED
      BY <1>2, <2>2, <3>2, <3>3, <3>6 DEF Put
  <2>6. ASSUME NEW k \in DOMAIN m.config
        PROVE  nb.config[k] = Put(data, a, m.config[k].addr, b.config[k])
    <3>1. k \in 1 .. length
      BY <1>3, <1>4
    <3>2. nb.config[k] = Put(data, a, start + k - 1, b.config[k])
      BY <1>9, <1>13, <2>2, <3>1
    <3> QED
      BY <1>5, <3>1, <3>2
  <2> QED
    BY <2>2, <2>3, <2>5, <2>6
<1> HIDE DEF st, nb, r
<1>14. r.ok <=> Len(data) % 2 = 0 /\ Fits16(m, HalfOf(s), Len(data) \div 2)
  BY <1>1, <1>2, <1>9, <1>11, <1>12
<1>15. ASSUME r.ok
       PROVE  /\ BufferOf(r.buffer, m) /\ r.buffer.data = b.data
              /\ \A k \in DOMAIN m.program : \A j \in 1 .. m.program[k].length :
                   r.buffer.program[k][j] =
                     Put(data, HalfOf(s), m.program[k].start + j - 1, b.program[k][j])
              /\ \A k \in DOMAIN m.config :
                   r.buffer.config[k] = Put(data, HalfOf(s), m.config[k].addr, b.config[k])
  <2>1. r.buffer = nb /\ st.ok
    BY <1>12, <1>15
  <2> QED
    BY <1>1, <1>13, <2>1
<1> QED
  BY <1>14, <1>15 DEF Places, r

\* updateBuffer places every packet that has room, and no other.
LEMMA PacketPlaced ==
  ASSUME NEW m, Metadata(m), NEW b, BufferOf(b, m), NEW s, NEW data \in Seq(Byte),
         HalfOf(s) \in Int, HalfOf(s) <= MaxAddress
  PROVE  Places(b, m, s, data, UpdateBuffer(b, m, Packet(s, data)))
<1>1. CASE \E k \in DOMAIN m.program : InBank(m.program[k], HalfOf(s))
  BY <1>1, PlacedInBank
<1>2. CASE /\ \A k \in DOMAIN m.program : ~InBank(m.program[k], HalfOf(s))
           /\ m.areas = {"p", "d", "c"} /\ \E k \in DOMAIN m.config : m.config[k].addr = HalfOf(s)
  BY <1>2, PlacedInConfig
<1>3. CASE /\ \A k \in DOMAIN m.program : ~InBank(m.program[k], HalfOf(s))
           /\ ~(m.areas = {"p", "d", "c"}
                 /\ \E k \in DOMAIN m.config : m.config[k].addr = HalfOf(s))
  <2> DEFINE r == UpdateBuffer(b, m, Packet(s, data))
  <2>1. AreaOf(m, HalfOf(s)) = "none"
    BY <1>3, AddressOutsideBanks
  <2>2. HalfOf(Packet(s, data).start) = HalfOf(s)
    BY DEF Packet
  <2>3. r = Failed
    BY <2>1, <2>2 DEF UpdateBuffer
  <2>4. ~Fits16(m, HalfOf(s), Len(data) \div 2)
    BY <1>3 DEF Fits16
  <2>5. ~r.ok
    BY <2>3 DEF Failed
  <2> QED
    BY <2>4, <2>5 DEF Places
<1> QED
  BY <1>1, <1>2, <1>3

-----------------------------------------------------------------------------
(***************************************************************************)
(* One line of the file                                                    *)
(***************************************************************************)
\* The data of a line.
DataOf(bytes) == SubSeq(bytes, 5, bytes[1] + 4)

\* A line that the reader takes.
Readable(l) ==
  /\ l.colon /\ l.digits /\ ~l.odd /\ Len(l.bytes) \in MinBytes .. MaxBytes
  /\ l.bytes[4] = 0 /\ Len(l.bytes) >= l.bytes[1] + 4
  /\ Sum(l.bytes) % 256 = 0
PacketOf(l) == Packet(Word16(l.bytes[3], l.bytes[2]), DataOf(l.bytes))

\* A line long enough has its count, its address and its type.
LEMMA LineLength ==
  ASSUME NEW l \in HexLines, Len(l.bytes) \in MinBytes .. MaxBytes
  PROVE  l.bytes \in Seq(Byte) /\ Len(l.bytes) >= 5
<1>1. l.bytes \in Seq(Byte)
  BY DEF HexLines
<1>2. \A n \in Int : n \in MinBytes .. MaxBytes => n >= 5
  BY DEF MinBytes, MaxBytes
<1> QED
  BY <1>1, <1>2

\* A line that is read is the packet of its bytes.
LEMMA LineRead ==
  ASSUME NEW l \in HexLines, ~(ValidLine(l) /\ EOFLine(l))
  PROVE  /\ ReadPacket(l).ok <=> Readable(l)
         /\ Readable(l) => ReadPacket(l) = PacketOf(l)
<1>1. Len(l.bytes) \in MinBytes .. MaxBytes => l.bytes[1] \in Int /\ Len(l.bytes) \in Nat
  <2>1. l.bytes \in Seq(Byte)
    BY DEF HexLines
  <2>2. Len(l.bytes) \in MinBytes .. MaxBytes => 1 \in DOMAIN l.bytes
    BY <2>1 DEF MinBytes, MaxBytes
  <2> QED
    BY <2>1, <2>2, ByteBounds
<1>2. ReadPacket(l) = IF Readable(l) THEN PacketOf(l) ELSE Failed
  <2> DEFINE valid == ValidLine(l) /\ l.digits /\ ValidCRC(l.bytes)
  <2>1. Readable(l) <=> valid /\ ~(l.bytes[1] + 4 > Len(l.bytes))
    BY <1>1 DEF Readable, ValidLine, ValidCRC, DataLine, EOFLine
  <2>2. CreatePacket(l.bytes) = IF l.bytes[1] + 4 > Len(l.bytes) THEN Failed ELSE PacketOf(l)
    BY DEF CreatePacket, Packet, PacketOf, DataOf
  <2>3. ReadPacket(l) = IF valid THEN CreatePacket(l.bytes) ELSE Failed
    BY DEF ReadPacket
  <2> HIDE DEF valid
  <2> QED
    BY <2>1, <2>2, <2>3
<1>3. PacketOf(l).ok = TRUE /\ Failed.ok = FALSE
  BY DEF Packet, PacketOf, Failed
<1> QED
  BY <1>2, <1>3

\* The data of a line are as many bytes as it says.
LEMMA LineData ==
  ASSUME NEW bytes \in Seq(Byte), Len(bytes) >= 5, Len(bytes) >= bytes[1] + 4
  PROVE  /\ DataOf(bytes) \in Seq(Byte) /\ Len(DataOf(bytes)) = bytes[1] /\ bytes[1] \in Nat
         /\ \A i \in 1 .. bytes[1] : DataOf(bytes)[i] = bytes[4 + i]
<1>1. PICK n \in Nat : n = bytes[1]
  BY ByteBounds
<1>2. \A i \in 1 .. n : 4 + i \in 1 .. Len(bytes)
  BY <1>1
<1>3. Len(SubSeq(bytes, 5, n + 4)) = n
  BY <1>1
<1>4. \A i \in 1 .. n : SubSeq(bytes, 5, n + 4)[i] = bytes[4 + i]
  BY <1>1, <1>2
<1>5. SubSeq(bytes, 5, n + 4) \in Seq(Byte)
  BY <1>1, <1>2
<1> QED
  BY <1>1, <1>3, <1>4, <1>5 DEF DataOf

\* The word that a line starts at, as the GUI computes it.
FirstWord(k) == HalfOf(Word16(file[k].bytes[3], file[k].bytes[2]))

LEMMA FirstWordOf ==
  ASSUME NEW k, file[k].bytes \in Seq(Byte), Len(file[k].bytes) >= 5
  PROVE  /\ FirstWord(k) \in Int /\ FirstWord(k) <= MaxAddress /\ StartWord(k) \in Nat
         /\ FirstWord(k) >= 0 => FirstWord(k) = StartWord(k)
         /\ FirstWord(k) < 0  => StartWord(k) > MaxAddress
<1>1. PICK low \in Byte, high \in Byte : low = file[k].bytes[3] /\ high = file[k].bytes[2]
  OBVIOUS
<1>2. PICK a, n, s : a = FirstWord(k) /\ n = high * 256 + low /\ s = StartWord(k)
  OBVIOUS
<1>3. a = HalfOf(Word16(low, high)) /\ s = IF n = 65535 THEN 0 ELSE n \div 2
  BY <1>1, <1>2 DEF FirstWord, StartWord
<1>4. /\ a \in Int /\ a <= 16383 /\ s \in Nat
      /\ a >= 0 => a = s
      /\ a < 0  => s >= 16384
  BY <1>2, <1>3, HalfOfWord
<1> QED
  BY <1>2, <1>4 DEF MaxAddress

\* HasRoom, which speaks of the words a line names, and the test of the code,
\* which looks at the first address and then counts, agree.
LEMMA RoomFor ==
  ASSUME Metadata(meta), NEW k, file[k].bytes \in Seq(Byte), Len(file[k].bytes) >= 5
  PROVE  /\ HasRoom(k) <=> Fits16(meta, FirstWord(k), file[k].bytes[1] \div 2)
         /\ HasRoom(k) => FirstWord(k) = StartWord(k)
<1>1. PICK n \in Nat : n = file[k].bytes[1] \div 2
  <2>1. file[k].bytes[1] \in Int /\ file[k].bytes[1] >= 0
    BY ByteBounds
  <2> QED
    BY <2>1
<1>2. PICK s \in Nat, a \in Int : s = StartWord(k) /\ a = FirstWord(k)
  BY FirstWordOf
<1>3. /\ a <= MaxAddress /\ MaxAddress \in Int
      /\ a >= 0 => a = s
      /\ a < 0  => s > MaxAddress
  BY <1>2, FirstWordOf, AddressBounds
<1>4. \A first, length \in Int :
        Inside(k, first, length) <=> first <= s /\ s < first + length /\ s + n - 1 < first + length
  <2>1. TAKE first, length \in Int
  <2>2. PICK last \in Int, end \in Int : last = s + n - 1 /\ end = first + length - 1
    OBVIOUS
  <2>3. NamedWords(k) = s .. last
    BY <1>1, <1>2, <2>2 DEF NamedWords
  <2>4. Inside(k, first, length) <=> {s} \union (s .. last) \subseteq first .. end
    BY <1>2, <2>2, <2>3 DEF Inside
  <2>5. s \in Int /\ last \in Int /\ first \in Int /\ end \in Int /\ s - 1 <= last
    BY <2>2
  <2>6. {s} \union (s .. last) \subseteq first .. end <=> first <= s /\ s <= end /\ last <= end
    BY ONLY <2>5
  <2>7. (s <= end <=> s < first + length) /\ (last <= end <=> s + n - 1 < first + length)
    BY <2>2
  <2> QED
    BY <2>4, <2>6, <2>7
<1>5. ASSUME NEW b \in DOMAIN meta.program
      PROVE  /\ Inside(k, meta.program[b].start, meta.program[b].length) <=>
                  /\ InBank(meta.program[b], a)
                  /\ a + n - 1 < meta.program[b].start + meta.program[b].length
             /\ Inside(k, meta.program[b].start, meta.program[b].length) => a = s
  <2>1. meta.program[b] \in BankMetadata
    BY DEF Metadata, DeviceBufferMetadata
  <2>2. PICK start \in Nat, length \in Nat :
           start = meta.program[b].start /\ length = meta.program[b].length
    BY <2>1 DEF BankMetadata
  <2>3. start + length - 1 <= MaxAddress
    BY <2>2, AddressBounds DEF Metadata, Layout
  <2>4. /\ start <= s /\ s < start + length /\ s + n - 1 < start + length <=>
             start <= a /\ a < start + length /\ a + n - 1 < start + length
        /\ start <= s /\ s < start + length => a = s
    BY <1>3, <2>3
  <2> QED
    BY <1>4, <2>2, <2>4 DEF InBank
<1>6. ASSUME meta.areas = {"p", "d", "c"}
      PROVE  /\ Inside(k, meta.config[1].addr, Len(meta.config)) <=>
                  /\ \E j \in DOMAIN meta.config : meta.config[j].addr = a
                  /\ a + n - 1 < meta.config[1].addr + Len(meta.config)
             /\ Inside(k, meta.config[1].addr, Len(meta.config)) => a = s
  <2>1. meta.config \in Seq(LocationMetadata) /\ meta.config # <<>>
    BY <1>6 DEF Metadata, DeviceBufferMetadata, Layout
  <2>2. 1 \in DOMAIN meta.config /\ meta.config[1] \in LocationMetadata
    BY <2>1
  <2>3. PICK start \in Nat, length \in Nat :
           start = meta.config[1].addr /\ length = Len(meta.config) /\ length > 0
    BY <2>1, <2>2 DEF LocationMetadata
  <2>4. \A j \in 1 .. length : meta.config[j].addr = start + j - 1 /\ start + j - 1 <= MaxAddress
    <3>1. ASSUME NEW j \in 1 .. length
          PROVE  meta.config[j].addr = start + j - 1 /\ meta.config[j].addr \in Addresses
      <4>1. j \in DOMAIN meta.config
        BY <2>1, <2>3
      <4> QED
        BY <2>3, <4>1 DEF Metadata, Layout
    <3> QED
      BY <3>1, AddressBounds
  <2>5. start + length - 1 <= MaxAddress
    BY <2>3, <2>4
  <2>6. (\E j \in DOMAIN meta.config : meta.config[j].addr = a) <=> start <= a /\ a < start + length
    <3>1. ASSUME start <= a, a < start + length
          PROVE  \E j \in 1 .. length : start + j - 1 = a
      <4>1. a - start + 1 \in 1 .. length /\ start + (a - start + 1) - 1 = a
        BY <3>1
      <4> QED
        BY <4>1
    <3>2. \A j \in 1 .. length : start + j - 1 = a => start <= a /\ a < start + length
      OBVIOUS
    <3>3. DOMAIN meta.config = 1 .. length
      BY <2>1, <2>3
    <3> QED
      BY <2>4, <3>1, <3>2, <3>3
  <2>7. /\ start <= s /\ s < start + length /\ s + n - 1 < start + length <=>
             start <= a /\ a < start + length /\ a + n - 1 < start + length
        /\ start <= s /\ s < start + length => a = s
    BY <1>3, <2>5
  <2>8. Inside(k, start, length) <=>
          start <= s /\ s < start + length /\ s + n - 1 < start + length
    BY <1>4
  <2> QED
    BY <2>3, <2>6, <2>7, <2>8
<1> QED
  BY <1>1, <1>2, <1>5, <1>6 DEF HasRoom, Fits16

\* No line, no word.
LEMMA WordInNone == \A x : WordIn({}, x) = 0
BY DEF WordIn

\* The line read last decides about the words that it names.
LEMMA WordInNext ==
  ASSUME NEW k \in Nat \ {0}, NEW x \in Int
  PROVE  WordIn(1 .. k, x) =
           IF x \in NamedWords(k)
             THEN file[k].bytes[5 + 2 * (x - StartWord(k))]
                    + 256 * file[k].bytes[5 + 2 * (x - StartWord(k)) + 1]
             ELSE WordIn(1 .. k - 1, x)
<1>1. CASE x \in NamedWords(k)
  <2> DEFINE naming == {j \in 1 .. k : x \in NamedWords(j)}
  <2>1. k \in naming /\ \A i \in naming : k >= i
    BY <1>1
  <2>2. \A j \in naming : (\A i \in naming : j >= i) => j = k
    BY <2>1
  <2>3. Max(naming) = k /\ naming # {}
    <3> HIDE DEF naming
    <3> QED
      BY <2>1, <2>2 DEF Max
  <2> QED
    BY <1>1, <2>3 DEF WordIn
<1>2. CASE x \notin NamedWords(k)
  <2>1. {j \in 1 .. k : x \in NamedWords(j)} = {j \in 1 .. k - 1 : x \in NamedWords(j)}
    BY <1>2
  <2>2. WordIn(1 .. k, x) = WordIn(1 .. k - 1, x)
    BY ONLY <2>1 DEF WordIn
  <2> QED
    BY <1>2, <2>2
<1> QED
  BY <1>1, <1>2

-----------------------------------------------------------------------------
(***************************************************************************)
(* The file read so far                                                    *)
(***************************************************************************)
\* The buffer holds what some lines of the file say.
WordsRead(b, lines) ==
  /\ \A k \in DOMAIN meta.program : \A j \in 1 .. meta.program[k].length :
       b.program[k][j] % 65536 = WordIn(lines, meta.program[k].start + j - 1)
  /\ \A k \in DOMAIN meta.config : b.config[k] % 65536 = WordIn(lines, meta.config[k].addr)
  /\ \A k \in DOMAIN meta.data : \A j \in 1 .. meta.data[k].length : b.data[k][j] = 0

\* A line has been found good.
GoodLine(k) == WellFormed(k) /\ HasRoom(k)

HexInv ==
  /\ file \in HexFiles \union {NoFile} /\ action \in Actions
  /\ at = "start" => meta \in DeviceMetas /\ line = 1
  /\ at # "start" => Metadata(meta) /\ BufferOf(buffer, meta)
  /\ at \in {"hex", "refused"} => file # NoFile
  /\ at # "start" /\ file # NoFile =>
       /\ line \in 1 .. Len(file) + 1
       /\ \A k \in 1 .. line - 1 : GoodLine(k)
       /\ WordsRead(buffer, 1 .. line - 1)
  /\ at = "refused" => ~AtEOF /\ ~Placed.ok
  /\ Beyond /\ file # NoFile => AtEOF

\* A number is the word that the first lines of the file say.
Says(k, x, n) == n % 65536 = WordIn(1 .. k, x)

\* The word that a packet puts at an address is the one its line says.
LEMMA PutWord ==
  ASSUME NEW k, file[k].bytes \in Seq(Byte), Len(file[k].bytes) >= 5,
         Len(file[k].bytes) >= file[k].bytes[1] + 4, k \in Nat \ {0},
         FirstWord(k) = StartWord(k), NEW x \in Int, NEW before \in Int,
         NEW j \in Int, j = k - 1, Says(j, x, before)
  PROVE  Says(k, x, Put(DataOf(file[k].bytes), FirstWord(k), x, before))
<1>1. PICK bytes \in Seq(Byte) : bytes = file[k].bytes
  OBVIOUS
<1>2. PICK data \in Seq(Byte) : data = DataOf(bytes)
  BY <1>1, LineData
<1>3. PICK count \in Nat : count = bytes[1]
  BY <1>1, LineData
<1>4. Len(data) = count /\ \A i \in 1 .. count : data[i] = bytes[4 + i] /\ data[i] \in Byte
  <2>1. Len(bytes) >= 5 /\ Len(bytes) >= bytes[1] + 4
    BY <1>1
  <2>2. Len(data) = count /\ \A i \in 1 .. count : data[i] = bytes[4 + i]
    BY <1>2, <1>3, <2>1, LineData
  <2>3. \A i \in 1 .. count : data[i] \in Byte
    BY <2>2
  <2> QED
    BY <2>2, <2>3
<1>5. PICK s \in Nat : s = StartWord(k)
  BY FirstWordOf
<1>6. PICK n \in Nat : n = count \div 2
  BY ONLY <1>3
<1>7. PICK i \in Int : i = x - s + 1
  OBVIOUS
<1>8. x \in NamedWords(k) <=> i \in 1 .. n
  <2>1. NamedWords(k) = s .. s + n - 1
    BY <1>1, <1>3, <1>5, <1>6 DEF NamedWords
  <2>2. s \in Nat /\ n \in Nat /\ x \in Int
    OBVIOUS
  <2>3. x \in s .. s + n - 1 <=> i \in 1 .. n
    BY ONLY <1>7, <2>2
  <2> QED
    BY <2>1, <2>3
<1>9. Put(data, FirstWord(k), x, before) =
        IF i \in 1 .. n THEN Word16(data[2 * i - 1], data[2 * i]) ELSE before
  BY <1>4, <1>5, <1>6, <1>7 DEF Put
<1>10. CASE i \in 1 .. n
  <2>1. 2 * i - 1 \in 1 .. count /\ 2 * i \in 1 .. count
    BY ONLY <1>3, <1>6, <1>10
  <2>2. PICK low \in Byte, high \in Byte :
           /\ low = data[2 * i - 1] /\ low = bytes[4 + (2 * i - 1)]
           /\ high = data[2 * i] /\ high = bytes[4 + 2 * i]
    BY <1>4, <2>1
  <2>3. s \in Nat /\ x \in Int
    OBVIOUS
  <2>4. 4 + (2 * i - 1) = 5 + 2 * (x - s) /\ 4 + 2 * i = 5 + 2 * (x - s) + 1
    BY ONLY <1>7, <2>3
  <2>5. WordIn(1 .. k, x) = bytes[5 + 2 * (x - s)] + 256 * bytes[5 + 2 * (x - s) + 1]
    BY <1>1, <1>5, <1>8, <1>10, WordInNext
  <2>6. WordIn(1 .. k, x) = low + 256 * high
    BY <2>2, <2>4, <2>5
  <2>7. Word16(low, high) % 65536 = low + 256 * high
    BY Word16Value
  <2>8. Put(data, FirstWord(k), x, before) = Word16(low, high)
    BY <1>9, <1>10, <2>2
  <2> QED
    BY <1>1, <1>2, <2>6, <2>7, <2>8 DEF Says
<1>11. CASE i \notin 1 .. n
  <2>1. WordIn(1 .. k, x) = WordIn(1 .. k - 1, x)
    BY <1>8, <1>11, WordInNext
  <2>2. Put(data, FirstWord(k), x, before) = before
    BY <1>9, <1>11
  <2> QED
    BY <1>1, <1>2, <2>1, <2>2 DEF Says
<1> QED
  BY <1>10, <1>11

\* What the code does with the next line, once it is not the end of the file.
LEMMA PlacedLine ==
  ASSUME HexInv, at \in {"hex", "refused"}, ~AtEOF
  PROVE  /\ Placed.ok <=> line <= Len(file) /\ GoodLine(line)
         /\ Placed.ok => BufferOf(Placed.buffer, meta) /\ WordsRead(Placed.buffer, 1 .. line)
<1>1. /\ Metadata(meta) /\ BufferOf(buffer, meta) /\ file \in Seq(HexLines)
      /\ line \in 1 .. Len(file) + 1 /\ WordsRead(buffer, 1 .. line - 1)
  BY HexFilesAssumption DEF HexInv
<1>2. CASE line > Len(file)
  <2>1. ~Placed.ok
    BY <1>2 DEF Placed, Failed
  <2> QED
    BY <1>1, <1>2, <2>1
<1>3. CASE line <= Len(file)
  <2>1. PICK l \in HexLines : l = file[line]
    BY <1>1, <1>3
  <2>2. /\ ReadPacket(l).ok <=> Readable(l)
        /\ Readable(l) => ReadPacket(l) = PacketOf(l)
    BY <1>1, <1>3, <2>1, LineRead DEF AtEOF
  <2>3. Placed = IF ReadPacket(l).ok THEN UpdateBuffer(buffer, meta, ReadPacket(l)) ELSE Failed
    BY <1>1, <1>3, <2>1 DEF Placed
  <2>4. WellFormed(line) <=> Readable(l) /\ l.bytes[1] % 2 = 0
    BY <2>1 DEF WellFormed, Readable
  <2>5. CASE ~Readable(l)
    <3>1. ~Placed.ok
      BY <2>2, <2>3, <2>5 DEF Failed
    <3> QED
      BY <2>4, <2>5, <3>1 DEF GoodLine
  <2>6. CASE Readable(l)
    <3>1. l.bytes \in Seq(Byte) /\ Len(l.bytes) >= 5 /\ Len(l.bytes) >= l.bytes[1] + 4
      BY <2>6, LineLength DEF Readable
    <3>2. PICK data \in Seq(Byte) : data = DataOf(l.bytes) /\ Len(data) = l.bytes[1]
      BY <3>1, LineData
    <3>3. PICK s : s = Word16(l.bytes[3], l.bytes[2])
      OBVIOUS
    <3>4. /\ HalfOf(s) = FirstWord(line) /\ HalfOf(s) \in Int /\ HalfOf(s) <= MaxAddress
      BY <2>1, <3>1, <3>3, FirstWordOf DEF FirstWord
    <3>5. Placed = UpdateBuffer(buffer, meta, Packet(s, data))
      BY <2>2, <2>3, <2>6, <3>2, <3>3 DEF PacketOf
    <3>6. Places(buffer, meta, s, data, Placed)
      BY <1>1, <3>4, <3>5, PacketPlaced
    <3>7. Placed.ok <=> l.bytes[1] % 2 = 0 /\ Fits16(meta, FirstWord(line), l.bytes[1] \div 2)
      BY <3>2, <3>4, <3>6 DEF Places
    <3>8. /\ HasRoom(line) <=> Fits16(meta, FirstWord(line), l.bytes[1] \div 2)
          /\ HasRoom(line) => FirstWord(line) = StartWord(line)
      BY <1>1, <2>1, <3>1, RoomFor
    <3>9. Placed.ok <=> GoodLine(line)
      BY <2>4, <2>6, <3>7, <3>8 DEF GoodLine
    <3>10. ASSUME Placed.ok
           PROVE  BufferOf(Placed.buffer, meta) /\ WordsRead(Placed.buffer, 1 .. line)
      <4>1. FirstWord(line) = StartWord(line)
        BY <3>8, <3>9, <3>10 DEF GoodLine
      <4>2. PICK next : next = Placed.buffer
        OBVIOUS
      <4>3. /\ BufferOf(next, meta) /\ next.data = buffer.data
            /\ \A k \in DOMAIN meta.program : \A j \in 1 .. meta.program[k].length :
                 next.program[k][j] =
                   Put(data, HalfOf(s), meta.program[k].start + j - 1, buffer.program[k][j])
            /\ \A k \in DOMAIN meta.config :
                 next.config[k] = Put(data, HalfOf(s), meta.config[k].addr, buffer.config[k])
        BY <3>6, <3>10, <4>2 DEF Places
      <4>4. ASSUME NEW x \in Int, NEW before \in Int,
                   before % 65536 = WordIn(1 .. line - 1, x)
            PROVE  Put(data, HalfOf(s), x, before) % 65536 = WordIn(1 .. line, x)
        <5>1. line \in Nat \ {0}
          BY <1>1
        <5>2. /\ file[line].bytes \in Seq(Byte) /\ Len(file[line].bytes) >= 5
              /\ Len(file[line].bytes) >= file[line].bytes[1] + 4
          BY <2>1, <3>1
        <5>3. PICK j \in Int : j = line - 1
          BY <1>1
        <5>4. Says(j, x, before)
          BY <4>4, <5>3 DEF Says
        <5>5. Says(line, x, Put(DataOf(file[line].bytes), FirstWord(line), x, before))
          BY <4>1, <5>1, <5>2, <5>3, <5>4, PutWord
        <5> QED
          BY <2>1, <3>2, <3>4, <5>5 DEF Says
      <4>5. meta.program \in Seq(BankMetadata) /\ meta.config \in Seq(LocationMetadata)
        BY <1>1 DEF Metadata, DeviceBufferMetadata
      <4>6. ASSUME NEW k \in DOMAIN meta.program, NEW j \in 1 .. meta.program[k].length
            PROVE  next.program[k][j] % 65536 =
                     WordIn(1 .. line, meta.program[k].start + j - 1)
        <5>1. meta.program[k] \in BankMetadata
          BY <4>5
        <5>2. PICK x \in Int : x = meta.program[k].start + j - 1
          BY <5>1 DEF BankMetadata
        <5>3. buffer.program[k] \in Seq(Int) /\ j \in DOMAIN buffer.program[k]
          BY <1>1, <4>5, <5>1 DEF BufferOf, BankMetadata
        <5>4. PICK before \in Int : before = buffer.program[k][j]
          BY <5>3
        <5>5. before % 65536 = WordIn(1 .. line - 1, x)
          BY <1>1, <5>2, <5>4 DEF WordsRead
        <5> QED
          BY <4>3, <4>4, <5>2, <5>4, <5>5
      <4>7. ASSUME NEW k \in DOMAIN meta.config
            PROVE  next.config[k] % 65536 = WordIn(1 .. line, meta.config[k].addr)
        <5>0. meta.config[k] \in LocationMetadata
          BY <4>5
        <5>1. PICK x \in Int : x = meta.config[k].addr
          BY <5>0 DEF LocationMetadata
        <5>2. PICK before \in Int : before = buffer.config[k]
          <6>1. buffer.config \in Seq(Int) /\ k \in DOMAIN buffer.config
            BY <1>1, <4>5 DEF BufferOf
          <6> QED
            BY <6>1
        <5>3. before % 65536 = WordIn(1 .. line - 1, x)
          BY <1>1, <5>1, <5>2 DEF WordsRead
        <5> QED
          BY <4>3, <4>4, <5>1, <5>2, <5>3
      <4>8. \A k \in DOMAIN meta.data : \A j \in 1 .. meta.data[k].length : next.data[k][j] = 0
        BY <1>1, <4>3 DEF WordsRead
      <4> QED
        BY <4>2, <4>3, <4>6, <4>7, <4>8 DEF WordsRead
    <3> QED
      BY <1>3, <3>9, <3>10
  <2> QED
    BY <2>5, <2>6
<1> QED
  BY <1>1, <1>2, <1>3

-----------------------------------------------------------------------------
(***************************************************************************)
(* The inductive invariant                                                 *)
(***************************************************************************)
\* No bank and no location.
LEMMA EmptySequence == <<>> \in Seq(BankMetadata) /\ <<>> \in Seq(LocationMetadata)
<1>1. <<>> \in Seq(BankMetadata)
  OBVIOUS
<1>2. <<>> \in Seq(LocationMetadata)
  OBVIOUS
<1> QED
  BY <1>1, <1>2

\* Trimming metadata to an action leaves metadata.
LEMMA Trimming ==
  ASSUME NEW m \in DeviceMetas, NEW area \in {""} \union DOMAIN AreaLetter
  PROVE  Metadata(TrimMetadata(m, area))
<1>1. m \in DeviceBufferMetadata /\ m.areas = {"p", "d", "c"} /\ Layout(m)
  BY MetadataAssumption
<1>2. CASE area = ""
  BY <1>1, <1>2 DEF TrimMetadata, Metadata
<1>3. CASE area # ""
  <2>1. area \in {"program", "data", "config"}
    BY <1>3 DEF AreaLetter
  <2> DEFINE t == TrimMetadata(m, area)
  <2>2. /\ t.areas = {AreaLetter[area]} /\ t.options = m.options
        /\ t.program = IF area = "program" THEN m.program ELSE <<>>
        /\ t.data    = IF area = "data"    THEN m.data    ELSE <<>>
        /\ t.config  = IF area = "config"  THEN m.config  ELSE <<>>
        /\ t = [areas |-> t.areas, options |-> t.options, program |-> t.program,
                data |-> t.data, config |-> t.config]
    BY <1>1, <1>3 DEF TrimMetadata, DeviceBufferMetadata
  <2>3. AreaLetter[area] \in {"p", "d", "c"} /\ (AreaLetter[area] = "p" <=> area = "program")
           /\ (AreaLetter[area] = "c" <=> area = "config")
    <3>1. CASE area = "program"
      BY <3>1 DEF AreaLetter
    <3>2. CASE area = "data"
      BY <3>2 DEF AreaLetter
    <3>3. CASE area = "config"
      BY <3>3 DEF AreaLetter
    <3> QED
      BY <2>1, <3>1, <3>2, <3>3
  <2> HIDE DEF t
  <2>4. t \in DeviceBufferMetadata
    <3> QED
      BY <1>1, <2>2, <2>3, EmptySequence DEF DeviceBufferMetadata
  <2>5. Layout(t)
    <3>1. CASE area = "program"
      BY <1>1, <2>2, <2>3, <3>1 DEF Layout
    <3>2. CASE area = "data"
      BY <1>1, <2>2, <2>3, <3>2 DEF Layout
    <3>3. CASE area = "config"
      BY <1>1, <2>2, <2>3, <3>3 DEF Layout
    <3> QED
      BY <2>1, <3>1, <3>2, <3>3
  <2>6. t.areas \in {{"p", "d", "c"}, {"p"}, {"d"}, {"c"}} /\ ("p" \notin t.areas => t.program = <<>>)
    BY <2>2, <2>3
  <2> QED
    BY <2>4, <2>5, <2>6 DEF Metadata, t
<1> QED
  BY <1>2, <1>3

\* The empty buffer of some metadata: no line is read, and all is 0.
LEMMA EmptyBuffer ==
  ASSUME NEW m, Metadata(m)
  PROVE  /\ BufferOf(InitDeviceBuffer(m), m)
         /\ \A k \in DOMAIN m.program : \A j \in 1 .. m.program[k].length :
              InitDeviceBuffer(m).program[k][j] = 0
         /\ \A k \in DOMAIN m.config : InitDeviceBuffer(m).config[k] = 0
         /\ \A k \in DOMAIN m.data : \A j \in 1 .. m.data[k].length :
              InitDeviceBuffer(m).data[k][j] = 0
<1>1. /\ m.program \in Seq(BankMetadata) /\ m.data \in Seq(BankMetadata)
      /\ m.config \in Seq(LocationMetadata)
  BY DEF Metadata, DeviceBufferMetadata
<1>2. ASSUME NEW banks \in Seq(BankMetadata)
      PROVE  /\ ZeroBanks(banks) \in Seq(Seq(Int)) /\ Len(ZeroBanks(banks)) = Len(banks)
             /\ \A k \in DOMAIN banks :
                  /\ Len(ZeroBanks(banks)[k]) = banks[k].length
                  /\ \A j \in 1 .. banks[k].length : ZeroBanks(banks)[k][j] = 0
  <2>1. ASSUME NEW k \in DOMAIN banks
        PROVE  LET zeros == [j \in 1 .. banks[k].length |-> 0]
               IN /\ zeros \in Seq(Int) /\ Len(zeros) = banks[k].length
                  /\ \A j \in 1 .. banks[k].length : zeros[j] = 0
    <3>1. banks[k] \in BankMetadata
      BY <1>2
    <3>2. PICK n \in Nat : n = banks[k].length
      BY <3>1 DEF BankMetadata
    <3>3. [j \in 1 .. n |-> 0] \in Seq(Int) /\ Len([j \in 1 .. n |-> 0]) = n
      OBVIOUS
    <3> QED
      BY <3>2, <3>3
  <2>2. DOMAIN banks = 1 .. Len(banks) /\ Len(banks) \in Nat
    BY <1>2
  <2>3. \A k \in 1 .. Len(banks) : ZeroBanks(banks)[k] = [j \in 1 .. banks[k].length |-> 0]
    BY <2>2 DEF ZeroBanks
  <2>4. ZeroBanks(banks) \in Seq(Seq(Int)) /\ Len(ZeroBanks(banks)) = Len(banks)
    BY <2>1, <2>2 DEF ZeroBanks
  <2> QED
    BY <2>1, <2>2, <2>3, <2>4
<1>3. PICK zero : zero = InitDeviceBuffer(m)
  OBVIOUS
<1>4. /\ zero = [program |-> zero.program, data |-> zero.data, config |-> zero.config]
      /\ zero.program = ZeroBanks(m.program) /\ zero.data = ZeroBanks(m.data)
      /\ zero.config = [k \in DOMAIN m.config |-> 0]
  BY <1>3 DEF InitDeviceBuffer
<1>5. zero.config \in Seq(Int) /\ Len(zero.config) = Len(m.config)
  BY <1>1, <1>4
<1>6. BufferOf(zero, m)
  BY <1>1, <1>2, <1>4, <1>5 DEF BufferOf
<1> QED
  BY <1>1, <1>2, <1>3, <1>4, <1>6

\* What is said of the lines of a file depends on the file and the metadata alone.
LEMMA SameLines ==
  ASSUME UNCHANGED <<file, meta>>
  PROVE  /\ \A k : GoodLine(k)' = GoodLine(k)
         /\ \A lines, x : WordIn(lines, x)' = WordIn(lines, x)
<1>1. \A k : GoodLine(k)' = GoodLine(k)
  BY DEF GoodLine, WellFormed, HasRoom, Inside, NamedWords, StartWord
<1>2. \A lines, x : WordIn(lines, x)' = WordIn(lines, x)
  BY DEF WordIn, NamedWords, StartWord
<1> QED
  BY <1>1, <1>2

\* The invariant holds at first...
LEMMA HexInit == ASSUME Init PROVE HexInv
BY DEF Init, HexInv, Beyond

\* ... after the metadata and the empty buffer...
LEMMA HexStart == ASSUME HexInv, Start PROVE HexInv'
<1>1. /\ at = "start" /\ meta' = TrimMetadata(meta, action.area)
      /\ buffer' = InitDeviceBuffer(meta') /\ line' = line
      /\ file' = file /\ action' = action
      /\ at' = IF file = NoFile THEN "send" ELSE "hex"
  BY DEF Start, inputs
<1>2. meta \in DeviceMetas /\ line = 1 /\ file \in HexFiles \union {NoFile} /\ action \in Actions
  BY <1>1 DEF HexInv
<1>3. Metadata(meta')
  BY <1>1, <1>2, ActionsAssumption, Trimming
<1>4. PICK m : m = meta'
  OBVIOUS
<1>5. /\ BufferOf(buffer', m)
      /\ \A k \in DOMAIN m.program : \A j \in 1 .. m.program[k].length :
           buffer'.program[k][j] = 0
      /\ \A k \in DOMAIN m.config : buffer'.config[k] = 0
      /\ \A k \in DOMAIN m.data : \A j \in 1 .. m.data[k].length : buffer'.data[k][j] = 0
  BY <1>1, <1>3, <1>4, EmptyBuffer
<1>6. ASSUME file # NoFile
      PROVE  /\ line \in 1 .. Len(file) + 1 /\ \A k \in 1 .. line - 1 : GoodLine(k)'
             /\ WordsRead(buffer, 1 .. line - 1)'
  <2>1. file \in Seq(HexLines)
    BY <1>2, <1>6, HexFilesAssumption
  <2>2. 1 .. line' - 1 = {} /\ line \in 1 .. Len(file) + 1
    BY <1>1, <1>2, <2>1
  <2>3. \A x : WordIn(1 .. line - 1, x)' = 0
    BY <2>2 DEF WordIn
  <2>4. WordsRead(buffer, 1 .. line - 1)'
    BY <1>4, <1>5, <2>3 DEF WordsRead
  <2> QED
    BY <1>1, <2>2, <2>4
<1> QED
  BY <1>1, <1>2, <1>3, <1>4, <1>5, <1>6 DEF HexInv, Beyond

\* ... after a line that is placed...
LEMMA HexRead == ASSUME HexInv, ReadHexLine PROVE HexInv'
<1>1. /\ at = "hex" /\ at' = at /\ ~AtEOF /\ Placed.ok /\ buffer' = Placed.buffer
      /\ line' = line + 1 /\ meta' = meta /\ file' = file /\ action' = action
  BY DEF ReadHexLine, inputs
<1>2. /\ Metadata(meta) /\ file \in HexFiles /\ file # NoFile /\ action \in Actions
      /\ line \in 1 .. Len(file) + 1 /\ \A k \in 1 .. line - 1 : GoodLine(k)
  BY <1>1 DEF HexInv
<1>3. /\ line <= Len(file) /\ GoodLine(line)
      /\ BufferOf(Placed.buffer, meta) /\ WordsRead(Placed.buffer, 1 .. line)
  BY <1>1, PlacedLine
<1>4. file \in Seq(HexLines)
  BY <1>2, HexFilesAssumption
<1>5. line' \in 1 .. Len(file) + 1 /\ line' - 1 = line
  BY <1>1, <1>2, <1>3, <1>4
<1>6. /\ \A k : GoodLine(k)' = GoodLine(k)
      /\ \A lines, x : WordIn(lines, x)' = WordIn(lines, x)
  BY <1>1, SameLines
<1>7. \A k \in 1 .. line : GoodLine(k)'
  BY <1>2, <1>3, <1>6
<1>8. WordsRead(buffer, 1 .. line - 1)'
  <2>1. \A x : WordIn(1 .. line, x) = WordIn(1 .. line - 1, x)'
    BY <1>5, <1>6
  <2>2. PICK next : next = buffer'
    OBVIOUS
  <2>3. WordsRead(next, 1 .. line)
    BY <1>1, <1>3, <2>2
  <2> QED
    BY <1>1, <2>1, <2>2, <2>3 DEF WordsRead
<1> QED
  BY <1>1, <1>2, <1>3, <1>5, <1>7, <1>8 DEF HexInv, Beyond

\* Nothing of the invariant changes but the place in the program.
LEMMA HexKept ==
  ASSUME HexInv, at # "start", UNCHANGED <<file, action, meta, line, buffer>>, at' # "start",
         at' \in {"hex", "refused"} => at = at',
         file # NoFile => AtEOF \/ at' = at
  PROVE  HexInv'
<1>1. AtEOF' = AtEOF /\ Placed' = Placed
  BY DEF AtEOF, Placed
<1>2. /\ \A k : GoodLine(k)' = GoodLine(k)
      /\ \A lines, x : WordIn(lines, x)' = WordIn(lines, x)
  BY SameLines
<1>3. WordsRead(buffer, 1 .. line - 1)' = WordsRead(buffer, 1 .. line - 1)
  BY DEF WordsRead, WordIn, NamedWords, StartWord
<1> QED
  BY <1>1, <1>2, <1>3 DEF HexInv, Beyond

\* Every step keeps it.
LEMMA HexNext == ASSUME HexInv, [Next]_vars PROVE HexInv'
<1>1. CASE Start
  BY <1>1, HexStart
<1>2. CASE ReadHexLine
  BY <1>2, HexRead
<1>3. CASE RefuseHexFile
  <2>1. /\ at = "hex" /\ at' = "refused" /\ ~AtEOF /\ ~Placed.ok
        /\ UNCHANGED <<file, action, meta, line, buffer>>
    BY <1>3 DEF RefuseHexFile, inputs, guiVars
  <2>2. AtEOF' = AtEOF /\ Placed' = Placed
    BY <2>1 DEF AtEOF, Placed
  <2>3. /\ \A k : GoodLine(k)' = GoodLine(k)
        /\ \A lines, x : WordIn(lines, x)' = WordIn(lines, x)
    BY <2>1, SameLines
  <2>4. WordsRead(buffer, 1 .. line - 1)' = WordsRead(buffer, 1 .. line - 1)
    BY <2>1 DEF WordsRead, WordIn, NamedWords, StartWord
  <2> QED
    BY <2>1, <2>2, <2>3, <2>4 DEF HexInv, Beyond
<1>4. CASE EndHexFile
  <2>1. /\ at = "hex" /\ at' = "send" /\ AtEOF
        /\ UNCHANGED <<file, action, meta, line, buffer>>
    BY <1>4 DEF EndHexFile, inputs, guiVars
  <2> QED
    BY <2>1, HexKept
<1>5. CASE \/ SendRequest \/ ReadLetter \/ StartTask \/ RunTaskV1 \/ RunStepV2
           \/ EndTaskV2 \/ WriteAnswer \/ ShowAnswer
  <2>1. at \in {"send", "read", "task", "write", "show"} /\ at' \in {"read", "task", "write", "show", "shown"}
    BY <1>5 DEF SendRequest, ReadLetter, StartTask, RunTaskV1, RunStepV2, EndTaskV2,
      WriteAnswer, ShowAnswer
  <2>2. UNCHANGED <<file, action, meta, line, buffer>>
    BY <1>5 DEF SendRequest, ReadLetter, StartTask, RunTaskV1, RunStepV2, EndTaskV2,
      WriteAnswer, ShowAnswer, inputs, guiVars
  <2>3. file # NoFile => AtEOF
    BY <2>1 DEF HexInv, Beyond
  <2> QED
    BY <2>1, <2>2, <2>3, HexKept
<1>6. CASE UNCHANGED vars
  <2>1. UNCHANGED <<file, action, meta, line, buffer>> /\ at' = at
    BY <1>6 DEF vars, inputs, guiVars
  <2>2. CASE at # "start"
    BY <2>1, <2>2, HexKept
  <2>3. CASE at = "start"
    BY <2>1, <2>3 DEF HexInv, Beyond
  <2> QED
    BY <2>2, <2>3
<1> QED
  BY <1>1, <1>2, <1>3, <1>4, <1>5, <1>6 DEF Next, Finished

\* What is known at every state of the file and the buffer.
LEMMA HexAlways == Spec => []HexInv
<1>1. Init => HexInv
  BY HexInit
<1>2. HexInv /\ [Next]_vars => HexInv'
  BY HexNext
<1> QED
  BY <1>1, <1>2, PTL DEF Spec

-----------------------------------------------------------------------------
(***************************************************************************)
(* Theorems                                                                *)
(***************************************************************************)
\* The lines that count, once the end of the file is found, or none is left.
LEMMA LinesThatCount ==
  ASSUME HexInv, at # "start", file # NoFile
  PROVE  /\ 1 .. line - 1 \subseteq DataLines
         /\ AtEOF => DataLines = 1 .. line - 1 /\ DataLines # DOMAIN file
         /\ ~AtEOF /\ line <= Len(file) => line \in DataLines
         /\ line > Len(file) => DataLines = DOMAIN file
<1>1. /\ file \in Seq(HexLines) /\ line \in 1 .. Len(file) + 1
      /\ \A k \in 1 .. line - 1 : GoodLine(k)
  BY HexFilesAssumption DEF HexInv
<1>2. PICK n \in Nat : n = Len(file) /\ DOMAIN file = 1 .. n
  BY <1>1
<1>3. \A j \in 1 .. line - 1 : ~(ValidLine(file[j]) /\ EOFLine(file[j]))
  BY <1>1 DEF GoodLine, WellFormed, EOFLine
<1>4. PICK Ends : Ends = {j \in 1 .. n : ValidLine(file[j]) /\ EOFLine(file[j])}
  OBVIOUS
<1>5. DataLines = {k \in 1 .. n : \A j \in 1 .. k : j \notin Ends}
  BY <1>2, <1>4 DEF DataLines
<1>6. \A j \in 1 .. line - 1 : j \notin Ends
  BY <1>1, <1>3, <1>4
<1>7. AtEOF <=> line \in Ends
  BY <1>1, <1>2, <1>4 DEF AtEOF
<1>8. line \in 1 .. n + 1
  BY <1>1, <1>2
<1>9. 1 .. line - 1 \subseteq DataLines
  BY <1>5, <1>6, <1>8
<1>10. ASSUME AtEOF PROVE DataLines = 1 .. line - 1 /\ DataLines # DOMAIN file
  <2>1. line \in Ends /\ line \in 1 .. n
    BY <1>4, <1>7, <1>10
  <2>2. \A k \in DataLines : k \in 1 .. line - 1
    BY <1>5, <2>1
  <2>3. DataLines = 1 .. line - 1
    BY <1>9, <2>2
  <2>4. line \notin 1 .. line - 1
    BY <1>8
  <2> QED
    BY <1>2, <2>1, <2>3, <2>4
<1>11. ASSUME ~AtEOF, line <= n PROVE line \in DataLines
  <2>1. \A j \in 1 .. line : j \notin Ends
    BY <1>6, <1>7, <1>8, <1>11
  <2> QED
    BY <1>5, <1>8, <1>11, <2>1
<1>12. ASSUME line > n PROVE DataLines = 1 .. n
  <2>1. line - 1 = n
    BY <1>8, <1>12
  <2> QED
    BY <1>5, <1>9, <2>1
<1> QED
  BY <1>2, <1>9, <1>10, <1>11, <1>12

\* For every metadata of the shipped layout, every hex file and every action:
\* what RawDataToBuffer leaves in the buffer is, at each address, the word that
\* the last line of the file that names it says.
THEOREM HexFilePlaced == Spec => []HexPlaced
<1>1. HexInv => HexPlaced
  <2>1. SUFFICES ASSUME HexInv, Beyond, file # NoFile PROVE HexPlaced
    BY DEF HexPlaced
  <2>2. at # "start" /\ AtEOF
    BY <2>1 DEF HexInv, Beyond
  <2>3. DataLines = 1 .. line - 1 /\ WordsRead(buffer, 1 .. line - 1)
    BY <2>1, <2>2, LinesThatCount DEF HexInv
  <2>4. WordsRead(buffer, DataLines)
    BY <2>3
  <2> QED
    BY <2>4 DEF HexPlaced, WordsRead, FileWord
<1> QED
  BY <1>1, HexAlways, PTL

\* Likewise the servlet refuses a file when, and only when, it is damaged, has no
\* end, or has a word the device has no place for.
THEOREM HexFileJudged == Spec => []HexJudged
<1>1. HexInv => HexJudged
  <2>1. SUFFICES ASSUME HexInv PROVE HexJudged
    OBVIOUS
  <2>2. ASSUME at = "refused", Acceptable PROVE FALSE
    <3>1. /\ file # NoFile /\ at # "start" /\ ~AtEOF /\ ~Placed.ok
      BY <2>1, <2>2 DEF HexInv
    <3>2. file \in Seq(HexLines) /\ line \in Nat
      BY <2>1, <3>1, HexFilesAssumption DEF HexInv
    <3>3. line <= Len(file)
      BY <2>1, <2>2, <3>1, <3>2, LinesThatCount DEF Acceptable
    <3>4. GoodLine(line)
      BY <2>1, <2>2, <3>1, <3>2, <3>3, LinesThatCount DEF Acceptable, GoodLine
    <3> QED
      BY <2>1, <2>2, <3>1, <3>3, <3>4, PlacedLine
  <2>3. ASSUME Beyond, file # NoFile PROVE Acceptable
    <3>1. at # "start" /\ AtEOF
      BY <2>1, <2>3 DEF HexInv, Beyond
    <3>2. DataLines = 1 .. line - 1 /\ DataLines # DOMAIN file
      BY <2>1, <2>3, <3>1, LinesThatCount
    <3> QED
      BY <2>1, <2>3, <3>1, <3>2 DEF HexInv, Acceptable, GoodLine
  <2> QED
    BY <2>2, <2>3 DEF HexJudged
<1> QED
  BY <1>1, HexAlways, PTL
=============================================================================
