----------------------------- MODULE MCTypeString -----------------------------
(* Texts for the model checker.  "0083" is S: two equal digits in a row.       *)
EXTENDS TypeString

\* UTF-8 as its definition has it.
Utf8(ch) ==
    CASE ch < 128 -> <<ch>>
      [] ch \in 128 .. 2047 -> <<192 + ch \div 64, 128 + (ch % 64)>>
      [] ch \in 2048 .. 65535 -> <<224 + ch \div 4096, 128 + ((ch \div 64) % 64), 128 + (ch % 64)>>
      [] OTHER -> <<240 + ch \div 262144, 128 + ((ch \div 4096) % 64),
                    128 + ((ch \div 64) % 64), 128 + (ch % 64)>>
Text(chars) == [bytes |-> FlattenSeq([i \in DOMAIN chars |-> Utf8(chars[i])]), chars |-> chars]

\* a, @, S, e acute, the euro sign, a Cyrillic letter, an emoji, line feed, tab.
MCTexts == {Text(c) : c \in {<<97>>, <<64, 64>>, <<83, 10>>, <<65, 233>>, <<8364, 83>>,
                             <<1078, 97>>, <<128512>>, <<9, 97>>}}
    \cup {[bytes |-> <<226, 130, 65>>, chars |-> <<65533, 65533, 65>>],
          [bytes |-> <<65, 195>>, chars |-> <<65, 65533>>]}
=============================================================================
