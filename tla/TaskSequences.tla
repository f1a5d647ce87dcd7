---------------------------- MODULE TaskSequences ----------------------------
(***************************************************************************)
(* The sequences that the orders of both run_queues with a port or a deque *)
(* of their own are stated with: contexts, and the tasks in them.          *)
(***************************************************************************)
EXTENDS Integers, Sequences, SequenceTheorems, TLAPS

\* The tasks of a sequence of contexts, of its tail and after an append.
LEMMA TasksOfContexts ==
    ASSUME NEW S, NEW s \in Seq([task : S, queue : BOOLEAN])
    PROVE  [i \in DOMAIN s |-> s[i].task] \in Seq(S)
<1> DEFINE Cells == [task : S, queue : BOOLEAN]
<1>1. DOMAIN s = 1..Len(s) /\ Len(s) \in Nat
    BY LenProperties
<1>2. \A i \in 1..Len(s) : s[i].task \in S
  <2>1. \A x \in Cells : x.task \in S
    OBVIOUS
  <2> HIDE DEF Cells
  <2>2. s \in Seq(Cells)
    BY DEF Cells
  <2>3. \A i \in 1..Len(s) : s[i] \in Cells
    BY <2>2, ElementOfSeq
  <2> QED
    BY <2>1, <2>3
<1>3. [i \in 1..Len(s) |-> s[i].task] \in [1..Len(s) -> S]
    BY <1>2
<1> QED
    BY <1>1, <1>3

LEMMA TasksOfAppend ==
    ASSUME NEW S, NEW s \in Seq([task : S, queue : BOOLEAN]),
           NEW d \in S, NEW b \in BOOLEAN
    PROVE  LET c == [task |-> d, queue |-> b]
           IN  [i \in DOMAIN Append(s, c) |-> Append(s, c)[i].task]
                 = Append([i \in DOMAIN s |-> s[i].task], d)
<1> DEFINE Cells == [task : S, queue : BOOLEAN]
           c == [task |-> d, queue |-> b]
           T == [i \in DOMAIN s |-> s[i].task]
           L == [i \in DOMAIN Append(s, c) |-> Append(s, c)[i].task]
<1>1. c \in Cells /\ c.task = d
    OBVIOUS
<1>2. T \in Seq(S)
    BY TasksOfContexts
<1>3. Append(s, c) \in Seq(Cells)
    BY <1>1, AppendProperties
<1>4. L \in Seq(S)
    BY <1>3, TasksOfContexts
<1>5. Len(Append(s, c)) = Len(s) + 1 /\ \A i \in 1..Len(s) : Append(s, c)[i] = s[i]
    BY <1>1, AppendProperties
<1>6. Append(s, c)[Len(s) + 1] = c
    BY <1>1, AppendProperties
<1>7. Len(T) = Len(s) /\ Len(L) = Len(s) + 1
    BY <1>3, <1>5
<1>8. \A i \in 1..Len(L) : L[i] = Append(T, d)[i]
    BY <1>1, <1>2, <1>3, <1>5, <1>6, <1>7
<1>9. Append(T, d) \in Seq(S) /\ Len(Append(T, d)) = Len(L)
    BY <1>2, <1>7
<1> HIDE DEF c, T, L
<1>10. L = Append(T, d)
    BY <1>4, <1>8, <1>9, SeqEqual
<1> QED
    BY <1>10 DEF c, T, L

LEMMA TasksOfTail ==
    ASSUME NEW S, NEW s \in Seq([task : S, queue : BOOLEAN]), s # <<>>
    PROVE  LET T == [i \in DOMAIN s |-> s[i].task]
           IN  /\ T # <<>>
               /\ Head(T) = Head(s).task
               /\ [i \in DOMAIN Tail(s) |-> Tail(s)[i].task] = Tail(T)
<1> DEFINE Cells == [task : S, queue : BOOLEAN]
           T == [i \in DOMAIN s |-> s[i].task]
           L == [i \in DOMAIN Tail(s) |-> Tail(s)[i].task]
<1>1. T \in Seq(S)
    BY TasksOfContexts
<1>2. Len(s) \in Nat \ {0} /\ Len(T) = Len(s)
    BY EmptySeq
<1>3. T # <<>> /\ Head(T) = Head(s).task
    BY <1>1, <1>2
<1>4. /\ Tail(s) \in Seq(Cells) 
      /\ Len(Tail(s)) = Len(s) - 1
      /\ \A i \in 1..Len(Tail(s)) : Tail(s)[i] = s[i + 1]
    BY HeadTailProperties
<1>5. L \in Seq(S) /\ Len(L) = Len(s) - 1
  <2>1. L \in Seq(S)
    BY <1>4, TasksOfContexts
  <2>2. DOMAIN Tail(s) = 1..(Len(s) - 1)
    BY <1>2, <1>4
  <2> QED
    BY <1>2, <2>1, <2>2
<1>6. /\ Tail(T) \in Seq(S) 
      /\ Len(Tail(T)) = Len(T) - 1
      /\ \A i \in 1..Len(Tail(T)) : Tail(T)[i] = T[i + 1]
    BY <1>1, <1>3, HeadTailProperties
<1>7. \A i \in 1..Len(L) : L[i] = Tail(T)[i]
    BY <1>2, <1>4, <1>5, <1>6
<1> HIDE DEF T, L
<1>8. L = Tail(T)
    BY <1>2, <1>5, <1>6, <1>7, SeqEqual
<1> QED
    BY <1>3, <1>8 DEF T, L

\* Cutting a sequence of tasks in another place.
LEMMA Recut ==
    ASSUME NEW S, NEW p \in Seq(S), NEW s \in Seq(S)
    PROVE  /\ (p \o <<>>) \o s = p \o s
           /\ \A e \in S : (p \o <<e>>) \o s = Append(p, e) \o s
           /\ \A h \in Seq(S), e \in S : (p \o h) \o Append(s, e) = Append((p \o h) \o s, e)
           /\ s # <<>> => (p \o <<Head(s)>>) \o Tail(s) = p \o s
<1>1. p \o <<>> = p
    BY ConcatEmptySeq
<1>2. ASSUME NEW e \in S PROVE p \o <<e>> = Append(p, e)
    BY AppendIsConcat
<1>3. ASSUME NEW h \in Seq(S), NEW e \in S
      PROVE  (p \o h) \o Append(s, e) = Append((p \o h) \o s, e)
  <2>1. p \o h \in Seq(S) /\ <<e>> \in Seq(S)
    BY ConcatProperties
  <2>2. (p \o h) \o s \in Seq(S)
    BY <2>1, ConcatProperties
  <2>3. Append(s, e) = s \o <<e>> /\ Append((p \o h) \o s, e) = ((p \o h) \o s) \o <<e>>
    BY <2>2, AppendIsConcat
  <2> QED
    BY <2>1, <2>3, ConcatAssociative
<1>4. ASSUME s # <<>> PROVE (p \o <<Head(s)>>) \o Tail(s) = p \o s
  <2>1. Head(s) \in S /\ Tail(s) \in Seq(S)
    BY <1>4, HeadTailProperties
  <2>2. <<Head(s)>> \in Seq(S)
    BY <2>1
  <2>3. <<Head(s)>> \o Tail(s) = s
    BY <1>4, <2>1
  <2> QED
    BY <2>1, <2>2, <2>3, ConcatAssociative
<1> QED
    BY <1>1, <1>2, <1>3, <1>4

\* Where the elements of two sequences are when they are put together.
LEMMA Together ==
    ASSUME NEW S, NEW p \in Seq(S), NEW s \in Seq(S)
    PROVE  /\ DOMAIN (p \o s) = 1 .. Len(p) + Len(s)
           /\ Len(p) \in Nat /\ Len(s) \in Nat
           /\ DOMAIN p = 1 .. Len(p) /\ DOMAIN s = 1 .. Len(s)
           /\ \A i \in 1 .. Len(p) : (p \o s)[i] = p[i]
           /\ \A i \in 1 .. Len(s) : (p \o s)[Len(p) + i] = s[i]
  BY ConcatProperties, LenProperties
=============================================================================
