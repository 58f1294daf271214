----------------------------- MODULE ListLemmas -----------------------------
(***************************************************************************)
(* Facts about the sequences of lists that the refresh threads of ui.py    *)
(* hand to its main loop: built entry by entry, and emptied in any order.  *)
(***************************************************************************)
EXTENDS Integers, SequencesExt, SequenceTheorems, TLAPS

(* A function on the first n numbers is a sequence.                        *)
LEMMA FunctionIsSeq ==
    ASSUME NEW S, NEW n \in Nat, NEW f \in [1..n -> S]
    PROVE  f \in Seq(S) /\ Len(f) = n
<1>1. f \in Seq(S)
  BY SeqDef
<1>2. DOMAIN f = 1..Len(f) /\ Len(f) \in Nat
  BY <1>1, LenProperties
<1> QED
  BY <1>1, <1>2

(* Taking the i-th entry out leaves the others, in their order: those      *)
(* before it where they were, those after it one place earlier.            *)
LEMMA TakenOut ==
    ASSUME NEW S, NEW s \in Seq(S), NEW i \in 1..Len(s)
    PROVE  /\ RemoveAt(s, i) \in Seq(S)
           /\ Len(RemoveAt(s, i)) = Len(s) - 1
           /\ \A j \in 1..Len(RemoveAt(s, i)) :
                 \E k \in 1..Len(s) \ {i} : RemoveAt(s, i)[j] = s[k] /\ (k = j \/ k = j + 1)
           /\ \A j \in 1..Len(RemoveAt(s, i)) :
                 /\ j < i => RemoveAt(s, i)[j] = s[j]
                 /\ j >= i => RemoveAt(s, i)[j] = s[j + 1]
<1> DEFINE before == SubSeq(s, 1, i - 1)
           after  == SubSeq(s, i + 1, Len(s))
           t      == before \o after
<1>1. Len(s) \in Nat /\ i \in Int /\ Len(s) - 1 \in Nat
  BY LenProperties
<1>2. /\ before \in Seq(S) /\ Len(before) = i - 1
      /\ \A j \in 1..(i - 1) : before[j] = s[j]
  <2>1. \A j \in 1..(i - 1) : s[j] \in S
    BY <1>1, ElementOfSeq
  <2> QED
    BY <1>1, <2>1, SubSeqProperties
<1>3. /\ after \in Seq(S) /\ Len(after) = Len(s) - i
      /\ \A j \in 1..(Len(s) - i) : after[j] = s[i + j]
  <2>1. \A j \in (i + 1)..Len(s) : s[j] \in S
    BY <1>1, ElementOfSeq
  <2> QED
    BY <1>1, <2>1, SubSeqProperties
<1> HIDE DEF before, after
<1>4. /\ t \in Seq(S) /\ Len(t) = Len(s) - 1
      /\ \A j \in 1..(Len(s) - 1) : t[j] = IF j <= i - 1 THEN before[j] ELSE after[j - (i - 1)]
  <2>1. /\ t \in Seq(S) /\ Len(t) = Len(before) + Len(after)
        /\ \A j \in 1..(Len(before) + Len(after)) :
              t[j] = IF j <= Len(before) THEN before[j] ELSE after[j - Len(before)]
    BY <1>2, <1>3, ConcatProperties
  <2>2. Len(before) = i - 1 /\ Len(before) + Len(after) = Len(s) - 1
    BY <1>1, <1>2, <1>3
  <2> HIDE DEF t
  <2> QED
    BY <2>1, <2>2
<1> HIDE DEF t
<1>5. ASSUME NEW j \in 1..(Len(s) - 1), j < i PROVE t[j] = s[j]
  BY <1>1, <1>2, <1>4, <1>5
<1>6. ASSUME NEW j \in 1..(Len(s) - 1), j >= i PROVE t[j] = s[j + 1]
  <2>1. t[j] = after[j - (i - 1)]
    BY <1>1, <1>4, <1>6
  <2>2. j - (i - 1) \in 1..(Len(s) - i) /\ i + (j - (i - 1)) = j + 1
    BY <1>1, <1>6
  <2> QED
    BY <1>3, <2>1, <2>2
<1>7. ASSUME NEW j \in 1..(Len(s) - 1)
      PROVE  \E k \in 1..Len(s) \ {i} : t[j] = s[k] /\ (k = j \/ k = j + 1)
  <2>1. CASE j < i
    BY <1>1, <1>5, <2>1
  <2>2. CASE j >= i
    <3>1. j + 1 \in 1..Len(s) \ {i} /\ t[j] = s[j + 1]
      BY <1>1, <1>6, <2>2
    <3> QED
      BY <3>1
  <2> QED
    BY <1>1, <2>1, <2>2
<1>8. RemoveAt(s, i) = t
  BY DEF RemoveAt, before, after, t
<1> QED
  BY <1>4, <1>5, <1>6, <1>7, <1>8

(* ... and every one of them.                                              *)
LEMMA OthersStay ==
    ASSUME NEW S, NEW s \in Seq(S), NEW i \in 1..Len(s)
    PROVE  \A k \in 1..Len(s) \ {i} :
              \E j \in 1..Len(RemoveAt(s, i)) : RemoveAt(s, i)[j] = s[k]
<1> SUFFICES ASSUME NEW k \in 1..Len(s) \ {i}
             PROVE  \E j \in 1..Len(RemoveAt(s, i)) : RemoveAt(s, i)[j] = s[k]
  OBVIOUS
<1> DEFINE j == IF k < i THEN k ELSE k - 1
<1>1. Len(s) \in Nat
  BY LenProperties
<1>2. /\ Len(RemoveAt(s, i)) = Len(s) - 1
      /\ \A x \in 1..Len(RemoveAt(s, i)) :
            /\ x < i => RemoveAt(s, i)[x] = s[x]
            /\ x >= i => RemoveAt(s, i)[x] = s[x + 1]
  BY TakenOut
<1>3. j \in 1..(Len(s) - 1) /\ (k < i => j < i /\ j = k) /\ (~(k < i) => j >= i /\ j + 1 = k)
  BY <1>1
<1>4. RemoveAt(s, i)[j] = s[k]
  BY <1>2, <1>3
<1> QED
  BY <1>2, <1>3, <1>4

(* What a list holds when an entry is added, when one is taken out of the  *)
(* middle, and when the first one is.                                      *)
LEMMA RangeAppended ==
    ASSUME NEW S, NEW s \in Seq(S), NEW e \in S
    PROVE  Range(Append(s, e)) = Range(s) \cup {e}
<1>1. /\ Append(s, e) \in Seq(S) /\ Len(Append(s, e)) = Len(s) + 1 /\ Len(s) \in Nat
      /\ \A i \in 1..Len(s) : Append(s, e)[i] = s[i]
      /\ Append(s, e)[Len(s) + 1] = e
  BY AppendProperties, LenProperties
<1>2. /\ \A i \in 1..(Len(s) + 1) : i \in 1..Len(s) \/ i = Len(s) + 1
      /\ \A i \in 1..Len(s) : i \in 1..(Len(s) + 1)
      /\ Len(s) + 1 \in 1..(Len(s) + 1)
  BY <1>1
<1>3. /\ Range(s) = {s[i] : i \in 1..Len(s)}
      /\ Range(Append(s, e)) = {Append(s, e)[i] : i \in 1..(Len(s) + 1)}
  BY <1>1, RangeEquality
<1> QED
  BY <1>1, <1>2, <1>3

LEMMA RangeRemoved ==
    ASSUME NEW S, NEW s \in Seq(S), NEW i \in 1..Len(s)
    PROVE  Range(s) = Range(RemoveAt(s, i)) \cup {s[i]}
<1>1. /\ RemoveAt(s, i) \in Seq(S)
      /\ \A j \in 1..Len(RemoveAt(s, i)) : \E k \in 1..Len(s) : RemoveAt(s, i)[j] = s[k]
  <2>1. /\ RemoveAt(s, i) \in Seq(S)
        /\ \A j \in 1..Len(RemoveAt(s, i)) :
              \E k \in 1..Len(s) \ {i} : RemoveAt(s, i)[j] = s[k] /\ (k = j \/ k = j + 1)
    BY TakenOut
  <2> QED
    BY <2>1
<1>2. \A k \in 1..Len(s) \ {i} :
         \E j \in 1..Len(RemoveAt(s, i)) : RemoveAt(s, i)[j] = s[k]
  BY OthersStay
<1>3. /\ Range(s) = {s[k] : k \in 1..Len(s)}
      /\ Range(RemoveAt(s, i)) = {RemoveAt(s, i)[j] : j \in 1..Len(RemoveAt(s, i))}
  BY <1>1, RangeEquality
<1> QED
  BY <1>1, <1>2, <1>3

LEMMA RangeTail ==
    ASSUME NEW S, NEW s \in Seq(S), s # <<>>
    PROVE  Range(s) = {Head(s)} \cup Range(Tail(s))
<1>1. /\ Head(s) = s[1] /\ Tail(s) \in Seq(S) /\ Len(Tail(s)) = Len(s) - 1
      /\ \A i \in 1..Len(Tail(s)) : Tail(s)[i] = s[i + 1]
      /\ Len(s) \in Nat /\ 1 \in 1..Len(s)
  BY HeadTailProperties, LenProperties, EmptySeq
<1>2. /\ \A i \in 1..Len(Tail(s)) : i + 1 \in 1..Len(s)
      /\ \A k \in 1..Len(s) : k # 1 => k - 1 \in 1..Len(Tail(s)) /\ (k - 1) + 1 = k
  BY <1>1
<1>3. \A k \in 1..Len(s) : k # 1 => \E i \in 1..Len(Tail(s)) : Tail(s)[i] = s[k]
  BY <1>1, <1>2
<1>4. /\ Range(s) = {s[k] : k \in 1..Len(s)}
      /\ Range(Tail(s)) = {Tail(s)[i] : i \in 1..Len(Tail(s))}
  BY <1>1, RangeEquality
<1> QED
  BY <1>1, <1>2, <1>3, <1>4

=============================================================================
