------------------------------ MODULE StringUtil ------------------------------
(* StringUtil (net/comm/string_util.cc) and the find functions of            *)
(* std::string, over strings of tokens. Positions count from 1, 0 is npos.   *)
EXTENDS Integers, Sequences, FiniteSetsExt

Least(S) == IF S = {} THEN 0 ELSE Min(S)

find(s, t) == Least({i \in 1..Len(s) - Len(t) + 1 : SubSeq(s, i, i + Len(t) - 1) = t})

\* Any token of t will do.
find_first_of(s, t) == Least({i \in DOMAIN s : \E j \in DOMAIN t : s[i] = t[j]})

find_last_of(s, t) ==
  LET S == {i \in DOMAIN s : \E j \in DOMAIN t : s[i] = t[j]} IN IF S = {} THEN 0 ELSE Max(S)

After(s, i) == SubSeq(s, i + 1, Len(s))

Ends(s, t) == /\ Len(s) >= Len(t)
              /\ After(s, Len(s) - Len(t)) = t

-----------------------------------------------------------------------------
\* The pieces of tmp, each of which a token of split_str ends; empty ones are
\* left out, and the whole length of split_str is skipped behind a piece.
Pieces(tmp, split_str) ==
  LET Nonempty(piece) == IF piece = <<>> THEN <<>> ELSE <<piece>>
      Rest[k \in 1..Len(tmp) + Len(split_str)] ==
        LET i == find_first_of(After(tmp, k - 1), split_str) IN
        IF i = 0 THEN <<>>
        ELSE Nonempty(SubSeq(tmp, k, k + i - 2)) \o Rest[k + i + Len(split_str) - 1]
  IN Rest[1]

SplitStrToVector(str, split_str) ==
  IF str = <<>> THEN <<>>
  ELSE Pieces(IF Ends(str, split_str) THEN str ELSE str \o split_str, split_str)

\* The keys and values of the pieces that have both; of equal keys the last one.
KeyValues(vec, joiner) ==
  LET Cut(piece) == find_first_of(piece, joiner)
      Key(piece) == SubSeq(piece, 1, Cut(piece) - 1)
      ValueIn(piece) == After(piece, Cut(piece) + Len(joiner) - 1)
      pairs == {i \in DOMAIN vec : Cut(vec[i]) > 1}
      LastOf(key) == Max({i \in pairs : Key(vec[i]) = key})
  IN [key \in {Key(vec[i]) : i \in pairs} |-> ValueIn(vec[LastOf(key)])]

SplitStrToMap(str, split_str, joiner) == KeyValues(SplitStrToVector(str, split_str), joiner)
=============================================================================
