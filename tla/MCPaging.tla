------------------------------ MODULE MCPaging ------------------------------
(***************************************************************************)
(* Small instances of Paging for TLC: tables whose sort keys are strings,  *)
(* numbers and binaries that are easily misplaced, and one without.        *)
(***************************************************************************)
EXTENDS Paging

S(bytes) == [type |-> "S", bytes |-> bytes]
B(bytes) == [type |-> "B", bytes |-> bytes]
N(neg, int, frac, exp) ==
    [type |-> "N", num |-> [neg |-> neg, int |-> int, frac |-> frac, exp |-> exp]]

a == <<97>>

(* a, a 0: part of a terminator inside; -10, -9, 0.5e-1: exponents and     *)
(* signs; 255, 255 255, 254 255: no byte to count up.                      *)
Attributes ==
    [strings  |-> [s1 |-> <<S(a), S(<<97>>)>>, s2 |-> <<S(a), S(<<97, 0>>)>>,
                   s3 |-> <<S(<<97, 0>>), S(<<97>>)>>],
     numbers  |-> [n1 |-> <<S(a), N(TRUE, <<1, 0>>, <<>>, 0)>>, n2 |-> <<S(a), N(TRUE, <<9>>, <<>>, 0)>>,
                   n3 |-> <<S(a), N(FALSE, <<0>>, <<5>>, -1)>>],
     binaries |-> [b1 |-> <<N(FALSE, <<1>>, <<>>, 0), B(<<255>>)>>,
                   b2 |-> <<N(FALSE, <<1>>, <<>>, 0), B(<<255, 255>>)>>,
                   b3 |-> <<N(FALSE, <<1>>, <<>>, 0), B(<<254, 255>>)>>],
     hashed   |-> [h1 |-> <<S(<<97, 0>>), NoSort>>, h2 |-> <<S(a), NoSort>>,
                   h3 |-> <<S(<<97, 0, 1>>), NoSort>>]]

MCKeys == [t \in DOMAIN Attributes |-> DOMAIN Attributes[t]]
TableOf(k) == CHOOSE t \in DOMAIN MCKeys : k \in MCKeys[t]
MCHash == [k \in UNION {MCKeys[t] : t \in DOMAIN MCKeys} |-> Attributes[TableOf(k)][k][1]]
MCRange == [k \in UNION {MCKeys[t] : t \in DOMAIN MCKeys} |-> Attributes[TableOf(k)][k][2]]

MCTables == DOMAIN MCKeys
MCHashType == [t \in MCTables |-> IF t = "binaries" THEN "N" ELSE "S"]
MCRangeType == [strings |-> "S", numbers |-> "N", binaries |-> "B", hashed |-> ""]

MCItems == {"kept", "dropped"}
MCFilters == {"none", "kept only", "strict"}
MCFiltered ==
    [f \in MCFilters |-> [i \in MCItems |->
        CASE f = "none" \/ i = "kept" -> "yes"
          [] f = "strict" /\ i = "dropped" -> "error"
          [] OTHER -> "no"]]

Cond(op, lo, hi) == [op |-> op, lo |-> lo, hi |-> hi]
All == Cond("", S(a), S(a))

Query(key, cond, forward, limit, filter) ==
    [kind |-> "Query", pk |-> key, cond |-> cond, forward |-> forward,
     limit |-> limit, filter |-> filter]

Scan(limit, filter) ==
    [kind |-> "Scan", pk |-> S(a), cond |-> All, forward |-> TRUE,
     limit |-> limit, filter |-> filter]

(* 1 as 1.0, -9.5, 50 as 5e1.                                              *)
One == N(FALSE, <<1>>, <<0>>, 0)
Low == N(TRUE, <<9>>, <<5>>, 0)
High == N(FALSE, <<5>>, <<>>, 1)

MCRequests ==
    [strings  |->
       {Query(S(a), All, FALSE, 2, "none"),
        Query(S(a), Cond("begins_with", S(<<97, 0>>), S(a)), TRUE, 1, "none"),
        Query(S(a), Cond(">", S(a), S(a)), TRUE, 0, "strict"),
        Query(S(a), Cond("=", N(FALSE, <<1>>, <<>>, 0), S(a)), TRUE, 0, "none"),
        Scan(1, "kept only")},
     numbers  |->
       {Query(S(a), All, TRUE, 1, "kept only"),
        Query(S(a), Cond("between", Low, High), FALSE, 1, "none"),
        Query(S(a), Cond("<=", N(TRUE, <<0, 9>>, <<0>>, 0), S(a)), TRUE, 2, "none"),
        Query(S(a), Cond("begins_with", S(a), S(a)), TRUE, 0, "none")},
     binaries |->
       {Query(One, Cond("begins_with", B(<<255>>), S(a)), TRUE, 1, "none"),
        Query(One, Cond("<", B(<<255, 255>>), S(a)), FALSE, 1, "none"),
        Query(One, Cond(">=", B(<<255>>), S(a)), TRUE, 0, "kept only")},
     hashed   |-> {Scan(1, "none"), Scan(2, "strict")}]

=============================================================================
