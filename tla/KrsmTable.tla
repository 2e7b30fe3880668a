----------------------------- MODULE KrsmTable ------------------------------
(***************************************************************************)
(* The table of pending futures of krsm/src/futures.rs: an array of        *)
(* MAX_PENDING optional pairs of a reason and a count, kept in descending  *)
(* order.  Reasons are numbered as their Ord orders them; 0 stands for     *)
(* None, which Option orders below every Some.                             *)
(***************************************************************************)
EXTENDS Naturals, Sequences

CONSTANT MaxPending   \* MAX_PENDING

ASSUME TableAssumption == MaxPending \in Nat \ {0}

Slots == 0..(MaxPending - 1)
None == [reason |-> 0, count |-> 0]

(* The table.  The searches are stated by what binary_search_by returns on *)
(* a descending array: the last match, or else the place to insert at.     *)

\* _pending_futures_size: the last None, not the first, ends the search.
Size(t) == IF t[MaxPending - 1].reason = 0 THEN MaxPending - 1 ELSE MaxPending

Found(t, r) == \E i \in Slots : t[i].reason = r

IndexOf(t, r) ==
    CHOOSE i \in Slots :
        t[i].reason = r /\ (i + 1 \in Slots => t[i + 1].reason < r)

InsertIndex(t, r) ==
    CHOOSE i \in 0..MaxPending :
        /\ i > 0 => t[i - 1].reason > r
        /\ i < MaxPending => t[i].reason < r

\* The loop of the standard library's binary_search_by (external): what is left of
\* the array is w.size elements from w.base on; the comparison is greater where r
\* exceeds the slot.
Windows == {w \in [size : 1..MaxPending, base : Slots] : w.base + w.size <= MaxPending}

BinarySearch(t, r) ==
    LET Half(w) == w.size \div 2
        search[w \in Windows] ==
            IF w.size = 1 THEN w.base
            ELSE search[[size |-> w.size - Half(w),
                         base |-> IF t[w.base + Half(w)].reason < r THEN w.base
                                  ELSE w.base + Half(w)]]
        base == search[[size |-> MaxPending, base |-> 0]]
    IN IF t[base].reason = r THEN [ok |-> TRUE, index |-> base]
       ELSE [ok |-> FALSE, index |-> IF t[base].reason > r THEN base + 1 ELSE base]

\* As slips: the removal keeps the last one; it leaves a hole.
RemoveKept(t, r) ==
    IF ~Found(t, r) \/ t[IndexOf(t, r)].count = 1 THEN t
    ELSE [t EXCEPT ![IndexOf(t, r)].count = @ - 1]
RemoveHole(t, r) == IF ~Found(t, r) THEN t ELSE [t EXCEPT ![IndexOf(t, r)] = None]

\* _remove_pending_future
Remove(t, r) ==
    IF ~Found(t, r) THEN t
    ELSE LET k == IndexOf(t, r) IN
         IF t[k].count > 1 THEN [t EXCEPT ![k].count = @ - 1]
         ELSE [i \in Slots |-> IF i >= k /\ i + 1 < Size(t) THEN t[i + 1] ELSE t[i]]

\* The registration in new_pending_future.  As a slip: it overwrites the next
\* entry instead of shifting.
Refuses(t, r) == ~Found(t, r) /\ Size(t) = MaxPending

InsertOverwrite(t, r) ==
    IF Found(t, r)
    THEN [t EXCEPT ![IndexOf(t, r)].count = @ + 1]
    ELSE [t EXCEPT ![InsertIndex(t, r)] = [reason |-> r, count |-> 1]]

Insert(t, r) ==
    IF Found(t, r)
    THEN [t EXCEPT ![IndexOf(t, r)].count = @ + 1]
    ELSE LET k == InsertIndex(t, r) IN
         [i \in Slots |-> IF i = k THEN [reason |-> r, count |-> 1]
                          ELSE IF i > k /\ i <= Size(t) THEN t[i - 1] ELSE t[i]]

\* What filter_valid_futures leaves when it keeps the reasons of `valid`.
Filter(t, valid) ==
    LET kept == SelectSeq([i \in 1..Size(t) |-> t[i - 1]],
                          LAMBDA e : e.reason \in valid)
    IN [i \in Slots |-> IF i < Len(kept) THEN kept[i + 1]
                        ELSE IF i < Size(t) THEN None ELSE t[i]]

\* The reasons check_pending_reasons offers to its callback.
PendingReasons(t) == {t[i].reason : i \in {j \in Slots : j < Size(t)}} \ {0}
=============================================================================
