-------------------------- MODULE MCRequestExchange --------------------------
\* A device with two words of program, two of data and two bits a word; the
\* configuration locations are the eight of the shipped metadata.
EXTENDS RequestExchange

NameOf(name) == IF name = "Device" THEN <<Ch("Device"), Ch(" "), Ch("ID")>> ELSE <<Ch(name)>>
Name(k) == CASE k \in 1 .. 4 -> "ID" [] k \in {5, 6} -> "Reserved" [] k = 7 -> "Device"
             [] OTHER -> "Configuration"
MCMeta ==
  [areas |-> {"p", "d", "c"}, options |-> <<0, 1, 2, 3>>,
   program |-> <<[start |-> 0, length |-> ProgSize]>>,
   data    |-> <<[start |-> 0, length |-> DataSize]>>,
   config  |-> [k \in 1 .. 8 |-> [addr |-> 8191 + k, name |-> NameOf(Name(k)),
                                  read |-> k \notin {5, 6}, write |-> k = 8]]]
MCDeviceMetas == {MCMeta}

MCActions ==
  {[op |-> op, area |-> ""] : op \in {"write", "read", "reset"}} \union
  {[op |-> "write", area |-> area] : area \in {"program", "data", "config"}} \union
  {[op |-> "read", area |-> "program"]}

\* Bytes with the checksum that belongs to them.
Summed(bytes) == Append(bytes, (256 - (Sum(bytes) % 256)) % 256)
Good(bytes)   == HexLine(TRUE, FALSE, TRUE, Summed(bytes))
End           == Good(<<0, 0, 0, 1>>)
Prog(a, data) == Good(<<Len(data), 0, 2 * a, 0>> \o data)
Config        == Good(<<2, 64, 14, 0, 2, 0>>)

MCHexFiles ==
  { <<Prog(0, <<1, 0, 2, 0>>), Config, End>>,                    \* a program
    <<Prog(1, <<3, 0>>), End>>,                                  \* from an address on
    <<Prog(0, <<1, 0, 2, 0>>), Prog(1, <<3, 0>>), End, Config>>, \* twice; after the end
    <<End>>,
    <<Prog(0, <<1, 0>>)>>,                                       \* no end
    <<Prog(0, <<1, 0>>), HexLine(TRUE, FALSE, TRUE, <<2, 0, 2, 0, 3, 0, 0>>), End>>,
    <<Prog(1, <<1, 0, 2, 0>>), End>>,                            \* over the end of the bank
    <<Prog(0, <<1, 0, 2>>), End>>,                               \* half a word
    <<Good(<<2, 66, 0, 0, 1, 0>>), End>>,                        \* EEPROM, at 0x2100
    <<Good(<<2, 255, 254, 0, 1, 0>>), End>>,                     \* a negative short
    <<Good(<<2, 255, 255, 0, 1, 0>>), End>>,                     \* halved to word 0
    <<Good(<<4, 0, 1, 0, 1, 0, 2, 0>>), End>>,                   \* an odd address
    <<Prog(1, <<>>), End>>, <<Prog(2, <<>>), End>>,              \* no data
    <<Prog(0, <<1, 0, 253, 255>>), End>>,                        \* more bits than a word has
    <<HexLine(TRUE, FALSE, FALSE, <<2, 0, 0, 0, 1, 0, 253>>), End>>,
    <<HexLine(FALSE, FALSE, TRUE, <<2, 0, 0, 0, 1, 0, 253>>), End>>,
    <<Good(<<2, 0, 0, 4, 0, 0>>), Prog(0, <<1, 0>>), End>> }     \* extended address

Filled(n, w) == [a \in 0 .. n - 1 |-> w]
Image(p, d, c) == [prog |-> p, data |-> d, cfg |-> c]
MCImages ==
  { Image(Filled(ProgSize, Bits), Filled(DataSize, Bits), Filled(8, Bits)),
    Image([a \in 0 .. ProgSize - 1 |-> IF a = 0 THEN {0} ELSE {1}],
          [a \in 0 .. DataSize - 1 |-> IF a = 0 THEN {} ELSE {0}],
          [a \in 0 .. 7 |-> IF a % 2 = 0 THEN {1} ELSE {}]) }
=============================================================================
