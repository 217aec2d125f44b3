------------------------------ MODULE FuzzyMatch -------------------------------
(***************************************************************************)
(* How the fuzzy search finds and scores a text (search/tokenizer.rs,      *)
(* search/fuzzy_search.rs): tokens by white space and script, their grams, *)
(* and the edit distance computed row by row.                              *)
(*                                                                         *)
(* A character is Latin in lower or upper case, Han, or white space; a     *)
(* text is a sequence of characters.                                       *)
(***************************************************************************)
EXTENDS Integers, Sequences, FiniteSets

CONSTANTS
    Alphabet,            \* the characters of the instance
    MaxQuery, MaxText    \* bounds: their lengths

VARIABLES
    query, text,  \* the arguments of levenshtein
    row,          \* i: how many rows are done
    prev          \* prev

vars == <<query, text, row, prev>>

Han == {"han", "kan"}
Script(c) == IF c \in Han THEN "Hani" ELSE "Latn"
Lower(c) == IF c = "A" THEN "a" ELSE c
LowerAll(s) == [i \in DOMAIN s |-> Lower(s[i])]
Bytes(s) == Len(s) + 2 * Cardinality({i \in DOMAIN s : s[i] \in Han})

(* A token goes on from character to character up to white space, a change   *)
(* of script or the end of the text.                                         *)
GoesOn(s, i) ==
    {i, i + 1} \subseteq DOMAIN s /\ " " \notin {s[i], s[i + 1]} /\ Script(s[i]) = Script(s[i + 1])
Tokens(s) ==
    {SubSeq(s, t[1], t[2]) : t \in
        {t \in (DOMAIN s) \X (DOMAIN s) :
            /\ t[1] =< t[2] /\ s[t[1]] # " "
            /\ \A i \in t[1]..(t[2] - 1) : GoesOn(s, i)
            /\ ~GoesOn(s, t[1] - 1) /\ ~GoesOn(s, t[2])}}

Windows(s, n) == {SubSeq(s, i, i + n - 1) : i \in 1..(Len(s) - n + 1)}

(* bigrams of Han as they are, trigrams of the rest in lower case; a shorter *)
(* token is its own gram.                                                    *)
Grams(token) ==
    LET n == IF Script(token[1]) = "Hani" THEN 2 ELSE 3
        ofThem == IF Len(token) < n THEN {token} ELSE Windows(token, n)
    IN IF n = 2 THEN ofThem ELSE {LowerAll(g) : g \in ofThem}

GramsOf(s) == UNION {Grams(token) : token \in Tokens(s)}

(* The rows of search_fuzzy that a gram of the query hits.                   *)
Candidate(q, s) == GramsOf(q) \cap GramsOf(s) # {}

Smaller(a, b) == IF a < b THEN a ELSE b
Larger(a, b) == IF a < b THEN b ELSE a

(* 1 - dist / max, as a fraction; distances count characters, lengths bytes. *)
Similarity(dist, q, s) ==
    LET max == Larger(Bytes(LowerAll(q)), Bytes(LowerAll(s)))
    IN IF max = 0 THEN [num |-> 0, den |-> 1] ELSE [num |-> max - dist, den |-> max]

--------------------------------------------------------------------------------

Strings(max) == UNION {[1..n -> Alphabet] : n \in 0..max}

NoCall == query = <<>> /\ text = <<>>

Init == NoCall /\ row = 0 /\ prev = [j \in 0..0 |-> 0]

(* levenshtein is called: prev is 0..=n.                                     *)
Call ==
    /\ NoCall
    /\ query' \in Strings(MaxQuery) /\ text' \in Strings(MaxText)
    /\ row' = 0
    /\ prev' = [j \in 0..Len(text') |-> j]

Cost(i, j) == IF Lower(query[i]) = Lower(text[j]) THEN 0 ELSE 1

Row ==
    /\ row < Len(query)
    /\ row' = row + 1
    /\ LET curr[j \in 0..Len(text)] ==
              IF j = 0 THEN row + 1
              ELSE Smaller(Smaller(prev[j] + 1, curr[j - 1] + 1), prev[j - 1] + Cost(row + 1, j))
       IN prev' = curr
    /\ UNCHANGED <<query, text>>

Return ==
    /\ ~NoCall /\ row = Len(query)
    /\ query' = <<>> /\ text' = <<>> /\ row' = 0 /\ prev' = [j \in 0..0 |-> 0]

Next == Call \/ Row \/ Return

Spec == Init /\ [][Next]_vars

TypeOK ==
    /\ query \in Seq(Alphabet) /\ text \in Seq(Alphabet)
    /\ row \in 0..Len(query)
    /\ prev \in [0..Len(text) -> 0..Larger(row, Len(text))]

(* The least cost of aligning the first i characters of the query with the   *)
(* first j of the text: the pairs of the alignment go up in both, all else   *)
(* is inserted or deleted, and unequal pairs are substitutions.              *)
Alignments(i, j) ==
    {a \in SUBSET ((1..i) \X (1..j)) :
        \A p, r \in a : p = r \/ (p[1] < r[1] /\ p[2] < r[2]) \/ (p[1] > r[1] /\ p[2] > r[2])}
Substitutions(a) == {p \in a : Lower(query[p[1]]) # Lower(text[p[2]])}
Costs(i, j) ==
    {i + j - 2 * Cardinality(a) + Cardinality(Substitutions(a)) : a \in Alignments(i, j)}
Distance(i, j) == CHOOSE d \in Costs(i, j) : \A e \in Costs(i, j) : d =< e

(* Every cell of every row is the distance of two prefixes, the last one     *)
(* that of the strings.                                                      *)
RowsAreDistances == \A j \in 0..Len(text) : prev[j] = Distance(row, j)

(* A text with a word of the query, in whatever case, is a candidate; a      *)
(* score is between 0 and 1, and 1 for the text that is the query alone.     *)
WordIsCandidate ==
    row = Len(query) =>
       /\ \A v \in Tokens(query) :
             (\E w \in Tokens(text) : LowerAll(v) = LowerAll(w)) => Candidate(query, text)
       /\ LET score == Similarity(prev[Len(text)], query, text)
          IN /\ score.num \in 0..score.den
             /\ query # <<>> => ((score.num = score.den) <=> LowerAll(query) = LowerAll(text))
================================================================================
