------------------------------- MODULE MCText -------------------------------
(* Bytes around every boundary the functions compare with, and sizes that  *)
(* double to a block that fits, to one that does not, and to none.         *)
EXTENDS Documents, TLC

Characters ==
  [bytes |-> {0, 3, 63, 64, 240, 255},
   base64 |-> {0, 63, Padding, OtherCharacter},
   utf8 |-> {1, 127, 128, 143, 144, 159, 160, 191, 192, 193, 194, 223, 224, 237, 239, 240, 244, 245},
   utf16 |-> {1, 127, 128, 2047, 2048, 55295, 55296, 56319, 56320, 57343, 57344, 65535},
   path |-> {"/", "\\", ".", ":", "a"},
   string |-> {1, 8, 9, 10, 13, 31, 32, 34, 47, 92, 110, 127, 128, 255},
   literal |->
     {Plain(c) : c \in {10, 97, 128, 194}} \cup {Letter(c) : c \in {34, 92, 47, 98, 102, 110, 114, 116, 97}}
     \cup {Unicode(u) : u \in {0, 31, 127, 128, 2047, 2048, 55296, 56319, 56320, 57343, 57344, 65535}},
   document |-> {<<c>> : c \in {"[", "]", "{", "}", ",", "a", "near", "far", Space}}
                  \cup {<<"a", ":">>, <<"b", ":">>, <<"a", ":", "null">>},
   arguments |-> {"x", Blank, Tab, QuoteMark, Slash, "next"},
   appends |-> [op : {"append"}, size : {0, 1, 7, 14}, memory : BOOLEAN],
   writes |-> [op : {"write", "clear"}, size : {0, 1, 8, 15}, memory : BOOLEAN]]

Lengths == [bytes |-> 5, base64 |-> 8, utf8 |-> 4, utf16 |-> 3, path |-> 6,
            string |-> 4, literal |-> 4, document |-> 7,
            arguments |-> 6, appends |-> 3, writes |-> 4]
=============================================================================
