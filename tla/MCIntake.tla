------------------------------ MODULE MCIntake ------------------------------
(* A small instance of Intake for TLC.  The bytes are                         *)
(*   0 NUL, 1 the backslash, 2 the dot, 3 the space, 4 the underscore,        *)
(*   5 and 6 a letter of the device names in lower and upper case,            *)
(*   7 a digit from 1 to 9, 8 the digit 0, 9 another letter,                  *)
(*   10 the first byte of a two-byte character, 11 and 13 its second byte,    *)
(*   12 the slash;                                                            *)
(* the devices are "CC" and "C1" where Windows has CON, COM1 and so on.       *)
EXTENDS Intake

MCMagic == <<8, 4, 9, 8>>
MCUpper == [b \in Byte |-> IF b = 5 THEN 6 ELSE b]
MCDevice == {<<6, 6>>}
MCNumberedDevice == {<<6>>}
MCFallback == <<9, 9>>
MCPartSuffix == <<2, 9>>
MCRoot == {<<9>>, <<9, 9, 9, 9, 1>>, <<9, 9, 9, 9, 12>>, <<9, 9, 9, 9, 9>>, [i \in 1 .. PathCapacity - 1 |-> 9]}

\* Characters are named by their first byte; 14 is half of a surrogate pair, which
\* TextEncoder replaces.
Char == 0 .. 14 \ {11, 13}

Texts(chars, n) == [1 .. n -> chars]

MCText == UNION {Texts(Char, n) : n \in 0 .. 2} \cup Texts(Char \ {14}, 3)
            \cup Texts(1 .. 7 \cup {9, 10}, 4) \cup Texts({2, 3, 6, 7, 9, 10}, FilenameMax)
            \cup Texts({2, 9}, FilenameMax + 1)

MCUtf8 == [text \in MCText |-> FlattenSeq([i \in DOMAIN text |->
              IF text[i] = 10 THEN <<10, 11>> ELSE IF text[i] = 14 THEN <<10, 13>> ELSE <<text[i]>>])]

\* One unit for each character.
MCWide(n) == SelectSeq(n, LAMBDA b : b \notin Continuation)

MCSha == <<1, 13>>

MCRequest ==
    [type : {FILE_BEGIN}, file_size : {1}, sha256 : {MCSha}, text : MCText]
    \cup [type : {FILE_BEGIN}, file_size : {0, Base ^ 4, Base ^ 8 - 1}, sha256 : {MCSha},
          text : {<<9>>}]
    \cup [type : {CHUNK}, payload : {<<0>>, [i \in 1 .. RelayMaxPayload |-> 9]}]
    \cup [type : {FILE_END}, payload : {<<>>}]

\* A frame around any payload.
Framed(type, payload) ==
    Magic \o <<Version, type>> \o WriteU16(0) \o WriteU32(Len(payload)) \o payload

\* The messages one byte away from a given one.
Near(message) ==
    {[message EXCEPT ![i] = b] : i \in DOMAIN message, b \in Byte}
    \cup {Front(message)} \cup {Append(message, b) : b \in Byte} \cup {From(message, 1)}

Begin(filename) ==
    Framed(FILE_BEGIN, WriteU64(1) \o MCSha \o WriteU16(Len(filename)) \o filename)

\* Names that no TextEncoder makes, near misses, and messages of the greatest length.
MCForeign ==
    {Begin(f) : f \in UNION {[1 .. n -> Byte] : n \in 0 .. 2}}
    \cup Near(Begin(<<9, 9>>)) \cup Near(Framed(CHUNK, <<>>)) \cup Near(Framed(FILE_END, <<>>))
    \cup {Framed(CHUNK, [i \in 1 .. RelayMaxPayload + k |-> 9]) : k \in {0, 1}}

AnAck == Framed(ACK, <<FILE_END, 0, 0, 0>> \o WriteU64(20))
MCForeignAnswer == Near(AnAck) \cup Near(Framed(ACK, <<>>)) \cup {Framed(CHUNK, From(AnAck, 12))}

MCCount == {0, 1, Base ^ 4, Base ^ 8 - 1}
=============================================================================
