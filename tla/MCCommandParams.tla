--------------------------- MODULE MCCommandParams ---------------------------
(* Small instances of CommandParams for TLC. *)
EXTENDS CommandParams

CONSTANT MaxLen     \* bound on the length of texts

MCChar == {"k", SPACE, EQUALS, QUOTE, BACKSLASH}

(* All texts up to the bound, with nothing but a NUL behind them; and, for *)
(* those that end in a backslash, a quote there.                           *)
Texts == UNION {[1 .. n -> MCChar] : n \in 0 .. MaxLen}
MCInput == [text : Texts, behind : {<<>>}]
            \cup [text : {t \in Texts : t # <<>> /\ t[Len(t)] = BACKSLASH}, behind : {<<QUOTE>>}]
=============================================================================
