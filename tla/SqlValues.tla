----------------------------- MODULE SqlValues -----------------------------
(***************************************************************************)
(* The values of crates/qmind-sql, the orders of codec.rs, and the keys    *)
(* under which indexes file them.                                          *)
(*                                                                         *)
(* A value is a sequence: a tag, then an integer or the characters of a    *)
(* text (numbers too).  The derived order of SqlValue is the order of      *)
(* these sequences, tag first.                                             *)
(***************************************************************************)
EXTENDS Integers, Sequences, FiniteSets, SequencesExt

Null == <<2>>
Num(n) == <<0, n>>
Text(s) == <<1>> \o s

IsInt(v) == v[1] = 0
IsText(v) == v[1] = 1
Number(v) == v[2]
Chars(v) == Tail(v)

\* col_pos: the first column of that name; 0 when there is none.
ColPos(schema, name) ==
  LET at == {i \in DOMAIN schema : schema[i] = name}
  IN IF at = {} THEN 0 ELSE CHOOSE i \in at : \A j \in at : i <= j
----------------------------------------------------------------------------
(* Orders.                                                                 *)

\* total_cmp, and Ord of SqlValue: INTEGER before TEXT before NULL.
Before(a, b) ==
  \E i \in DOMAIN b : /\ \A j \in 1..(i - 1) : j <= Len(a) /\ a[j] = b[j]
                      /\ i > Len(a) \/ (i <= Len(a) /\ a[i] < b[i])

\* try_cmp answers only for two values of one type, neither NULL.
Comparable(a, b) == a[1] = b[1] /\ a # Null

\* index_key_encode of a value that is not NULL.  A text's length comes
\* before its characters, so keys of texts are not in the order of the texts.
IndexKey(v) == IF IsInt(v) THEN v ELSE <<1, Len(Chars(v))>> \o Chars(v)
============================================================================
