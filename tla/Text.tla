-------------------------------- MODULE Text --------------------------------
(***************************************************************************)
(* The functions of Go's strings package that the code calls, on texts     *)
(* that are sequences of tokens: a token is a character the code looks for *)
(* or a run of characters it never looks into.                             *)
(***************************************************************************)
EXTENDS Naturals, Sequences, FiniteSetsExt

Texts == Seq(STRING)

Empty == <<>>
Blank == " "

Positions(t, c) == {i \in DOMAIN t : t[i] = c}

(* strings.Contains *)
Has(t, c) == \E i \in DOMAIN t : t[i] = c

(* Counted from 1, and 0 when c does not occur. *)
Index(t, c) == LET P == Positions(t, c) IN IF P = {} THEN 0 ELSE Min(P)

LastIndex(t, c) == LET P == Positions(t, c) IN IF P = {} THEN 0 ELSE Max(P)

Before(t, i) == SubSeq(t, 1, i - 1)

After(t, i) == SubSeq(t, i + 1, Len(t))

(* The last part of strings.Split(t, c). *)
LastPart(t, c) == LET i == LastIndex(t, c) IN After(t, i)

HasPrefix(t, c) == t # Empty /\ Head(t) = c

TrimPrefix(t, c) == IF HasPrefix(t, c) THEN Tail(t) ELSE t

TrimSpace(t) ==
    LET K == {i \in DOMAIN t : t[i] # Blank}
    IN  IF K = {} THEN Empty ELSE SubSeq(t, Min(K), Max(K))

============================================================================
