----------------------------- MODULE MCBootstrap -----------------------------
(* Small instances of Bootstrap for TLC. *)
EXTENDS Bootstrap

CONSTANTS b1, b2, b3

(* Words of six bits and digits of two.  Blocks lie at addresses of one to *)
(* three digits, with zeros and equal digits among them.                   *)
MCAddress == b1 :> 4 @@ b2 :> 21 @@ b3 :> 48
MCBlock == {b1, b2, b3}

(* Two images, one of which exports nothing. *)
MCImage == 5 :> <<7, 2>> @@ 9 :> <<>>

(* 1 (with a zero in front), 2 after an overflow, a letter too many,       *)
(* rubbish behind the digits, and nothing. *)
MCChars == {<<0, 1>>, <<2, 0, 0, 0, 2>>, <<1, PAST_F>>, <<1, OTHER_CHAR>>, <<>>}

Arg(name, v) == [name |-> name, number |-> [prefix |-> TRUE, chars |-> integer_to_hex(v)]]
Bare(name, chars) == [name |-> name, number |-> [prefix |-> FALSE, chars |-> chars]]
Odd(name, c) == [name |-> name, number |-> [prefix |-> TRUE, chars |-> <<1, c>>]]
B(v) == Arg("b", v)
O(v) == Arg("o", v)

(* Ordinals inside and just outside two tables, two bases, a base of 0,    *)
(* and none; more ordinals than there is room for; ordinals beyond half a  *)
(* word, one of which loses its top bits; arguments of every wrong form.   *)
MCArgumentList ==
    {<<B(5), O(0)>>, <<B(5), O(32), O(1)>>, <<B(5), O(33)>>, <<B(5), O(40)>>,
     <<B(5), O(2), B(9), O(1)>>, <<B(9), B(5), O(3)>>, <<B(5), O(1), O(2), O(3)>>,
     <<B(0), O(1)>>, <<B(5), O(1), B(0), O(1)>>, <<O(1)>>, <<B(5)>>, <<B(7), O(1)>>,
     <<B(5), Arg("?", 1)>>, <<Bare("b", <<1>>), O(1)>>, <<B(5), Bare("o", <<>>)>>,
     <<B(5), Odd("o", PAST_F)>>, <<Odd("b", PAST_F)>>,
     <<B(5), Odd("o", OTHER_CHAR)>>, <<Odd("b", OTHER_CHAR)>>}
=============================================================================
