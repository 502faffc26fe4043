------------------------------- MODULE HexFile -------------------------------
(***************************************************************************)
(* INHX8MFileReader and RawDataToBuffer of the GUI: the lines of a hex     *)
(* file placed in the buffer of a device.  A line is the bytes its digits  *)
(* stand for, with three facts about its characters that a byte cannot     *)
(* carry.  The metadata of a device is a record of banks and locations;    *)
(* "areas" holds the areas that are not null in it.                        *)
(***************************************************************************)
EXTENDS Integers, SequencesExt

Failed == [ok |-> FALSE]

-----------------------------------------------------------------------------
(***************************************************************************)
(* INHX8MFileReader                                                        *)
(***************************************************************************)
\* A line: does it start with ':', are its characters an odd number, are they
\* hexadecimal digits, and the bytes: count, address (2), type, data, checksum.
HexLine(colon, odd, digits, bytes) ==
  [colon |-> colon, odd |-> odd, digits |-> digits, bytes |-> bytes]
Byte == 0 .. 255
HexLines == [colon : BOOLEAN, odd : BOOLEAN, digits : BOOLEAN, bytes : Seq(Byte)]

MinBytes == 5
MaxBytes == 21
DataLine(line) == line.bytes[4] = 0
EOFLine(line)  == line.bytes[4] = 1

ValidLine(line) ==
  /\ line.colon
  /\ Len(line.bytes) \in MinBytes .. MaxBytes /\ ~line.odd
  /\ DataLine(line) \/ EOFLine(line)

Sum(bytes) == FoldLeft(LAMBDA x, y : x + y, 0, bytes)

\* Variant: the checksum is computed and not compared.
ValidCRCIgnored(bytes) == Sum(bytes) >= 0

ValidCRC(bytes) == Sum(bytes) % 256 = 0

\* UtilBinary.createWord returns a short: the sign bit is bit 15.
Word16(low, high) == LET n == low + 256 * high IN IF n < 32768 THEN n ELSE n - 65536

\* The count byte decides how much is taken; it may reach into the checksum,
\* and past it there is no byte to take (IndexOutOfBoundsException).
CreatePacket(bytes) ==
  IF bytes[1] + 4 > Len(bytes) THEN Failed
  ELSE [ok |-> TRUE, start |-> Word16(bytes[3], bytes[2]),
        data |-> SubSeq(bytes, 5, bytes[1] + 4)]

\* read(), on a data line or on a line that is not valid.
ReadPacket(line) ==
  IF ValidLine(line) /\ line.digits /\ ValidCRC(line.bytes)
    THEN CreatePacket(line.bytes) ELSE Failed

-----------------------------------------------------------------------------
(***************************************************************************)
(* RawDataToBuffer                                                         *)
(***************************************************************************)
BankMetadata     == [start : Nat, length : Nat]
LocationMetadata ==
  [addr : Nat, name : Seq([ch : STRING, num : Nat]), read : BOOLEAN, write : BOOLEAN]
DeviceBufferMetadata ==
  [areas : SUBSET {"p", "d", "c"}, options : Seq(Nat),
   program : Seq(BankMetadata), data : Seq(BankMetadata), config : Seq(LocationMetadata)]

\* initDeviceBuffer(metadata): everything starts at zero, null areas are empty.

\* Variant: the last location of a bank is forgotten.
ZeroBanksShort(banks) == [k \in DOMAIN banks |-> [j \in 1 .. banks[k].length - 1 |-> 0]]

ZeroBanks(banks) == [k \in DOMAIN banks |-> [j \in 1 .. banks[k].length |-> 0]]

\* Variant: locations start erased.
InitDeviceBufferErased(meta) ==
  [program |-> [k \in DOMAIN meta.program |-> [j \in 1 .. meta.program[k].length |-> 3]],
   data    |-> ZeroBanks(meta.data),
   config  |-> [k \in DOMAIN meta.config |-> 0]]

InitDeviceBuffer(meta) ==
  [program |-> ZeroBanks(meta.program),
   data    |-> ZeroBanks(meta.data),
   config  |-> [k \in DOMAIN meta.config |-> 0]]

\* getStartAddress() / 2 in Java rounds towards zero.
HalfOf(n) == IF n < 0 THEN -((-n) \div 2) ELSE n \div 2

InBank(bank, a) == bank.start <= a /\ a < bank.start + bank.length

\* obtenerBankMetadata: the first bank with the address (0: no bank has it).
BankOf(banks, a) == SelectInSeq(banks, LAMBDA bank : InBank(bank, a))

\* determinaAreaMemoria: the areas are tried in this order, and one whose
\* metadata is null ends the search with a NullPointerException.
AreaOf(meta, a) ==
  IF "p" \notin meta.areas THEN "none"
  ELSE IF BankOf(meta.program, a) # 0 THEN "p"
  ELSE IF "d" \notin meta.areas THEN "none"
  ELSE IF BankOf(meta.data, a) # 0 THEN "d"
  ELSE IF "c" \in meta.areas /\ \E k \in DOMAIN meta.config : meta.config[k].addr = a THEN "c"
  ELSE "none"

Pairs(bytes) == [k \in 1 .. Len(bytes) \div 2 |-> Word16(bytes[2 * k - 1], bytes[2 * k])]

\* The words from position "first" on, or nothing when they do not fit.
Store(locations, first, words) ==
  IF first + Len(words) - 1 > Len(locations) THEN Failed
  ELSE [ok |-> TRUE,
        to |-> [k \in DOMAIN locations |->
                  IF k \in first .. first + Len(words) - 1
                    THEN words[k - first + 1] ELSE locations[k]]]

\* updateBuffer: area and bank of the first address only; words of two bytes in
\* program and configuration memory, one byte a location in data memory.
UpdateBuffer(buffer, meta, packet) ==
  LET a    == HalfOf(packet.start)
      area == AreaOf(meta, a)
      bank == BankOf(IF area = "p" THEN meta.program ELSE meta.data, a)
      odd  == area # "d" /\ Len(packet.data) % 2 = 1
      r    == CASE area = "p" -> Store(buffer.program[bank],
                                       a - meta.program[bank].start + 1, Pairs(packet.data))
                [] area = "d" -> Store(buffer.data[bank],
                                       a - meta.data[bank].start + 1, packet.data)
                [] OTHER      -> Store(buffer.config,
                                       a - meta.config[1].addr + 1, Pairs(packet.data))
  IN IF area = "none" \/ odd \/ ~r.ok THEN Failed
     ELSE [ok |-> TRUE,
           buffer |-> CASE area = "p" -> [buffer EXCEPT !.program[bank] = r.to]
                        [] area = "d" -> [buffer EXCEPT !.data[bank] = r.to]
                        [] OTHER      -> [buffer EXCEPT !.config = r.to]]
=============================================================================
