--------------------------- MODULE PriolistProofs ---------------------------
(***************************************************************************)
(* Sound of module Priolist is proved for any number of pipes and any      *)
(* number of priorities.  It is not inductive alone: a pipe whose          *)
(* NN_PIPE_IN or NN_PIPE_OUT is still in the queue of the context is       *)
(* appended to its list without a look at it, so the invariant has to say  *)
(* that such a pipe is ready, or has been stopped since, and that its      *)
(* event is queued only once.                                              *)
(***************************************************************************)
EXTENDS Priolist, WellFoundedInduction, TLAPS

Has(q, p) == \E i \in 1 .. Len(q) : q[i] = p
NoDup(q) == \A i, j \in 1 .. Len(q) : q[i] = q[j] => i = j

(* What the operations of nn_priolist keep by themselves.                  *)
Shape ==
  /\ slots \in [Prios -> Seq(Pipes)]
  /\ cur \in [Prios -> Pipes \cup {NULL}]
  /\ current \in {-1} \cup Prios
  /\ \A k \in Prios : NoDup(slots[k])
  /\ CurrentIsBest

Ready(p, k) == prio[p] = k /\ pst[p] = "IDLE"
RaisedReady ==
  /\ NoDup(raised)
  /\ \A p \in Pipes : Has(raised, p) => prio[p] = 0 \/ \E k \in Prios : Ready(p, k)
ListedReady ==
  \A k \in Prios, p \in Pipes : Has(slots[k], p) <=> Ready(p, k) /\ ~ Has(raised, p)
IInv == TypeOK /\ Shape /\ RaisedReady /\ ListedReady /\ broken # "assertion"

-----------------------------------------------------------------------------
(* Erasing an item moves the later ones forward by one.                    *)
LEMMA EraseFacts ==
  ASSUME NEW q \in Seq(Pipes), NEW p \in Pipes, Has(q, p)
  PROVE  /\ At(q, p) \in 1 .. Len(q) /\ q[At(q, p)] = p
         /\ Erase(q, p) \in Seq(Pipes)
         /\ Len(Erase(q, p)) = Len(q) - 1
         /\ \A i \in 1 .. Len(q) - 1 :
              Erase(q, p)[i] = IF i < At(q, p) THEN q[i] ELSE q[i + 1]
<1>1. PICK a \in 1 .. Len(q) : a = At(q, p) /\ q[a] = p
  BY DEF At, Has
<1>2. PICK s : s = SubSeq(q, 1, a - 1)
  BY Zenon
<1>3. PICK t : t = SubSeq(q, a + 1, Len(q))
  BY Zenon
<1>4. Erase(q, p) = s \o t
  BY <1>1, <1>2, <1>3 DEF Erase, RemoveAt
<1>5. s \in Seq(Pipes) /\ Len(s) = a - 1 /\ \A i \in 1 .. a - 1 : s[i] = q[i]
  BY <1>2
<1>6. /\ t \in Seq(Pipes) /\ Len(t) = Len(q) - a
      /\ \A i \in 1 .. Len(q) - a : t[i] = q[i + a]
  BY <1>3
<1>7. s \o t \in Seq(Pipes) /\ Len(s \o t) = Len(q) - 1
  BY <1>5, <1>6
<1>8. ASSUME NEW i \in 1 .. Len(q) - 1, i < a PROVE (s \o t)[i] = q[i]
  <2>1. (s \o t)[i] = s[i] BY <1>5, <1>6, <1>8
  <2>2. QED BY <1>5, <1>8, <2>1
<1>9. ASSUME NEW i \in 1 .. Len(q) - 1, i >= a PROVE (s \o t)[i] = q[i + 1]
  <2>1. (s \o t)[i] = t[i - Len(s)] BY <1>5, <1>6, <1>9
  <2>2. i - Len(s) \in 1 .. Len(q) - a /\ (i - Len(s)) + a = i + 1 BY <1>5, <1>9
  <2>3. t[i - Len(s)] = q[(i - Len(s)) + a] BY <1>6, <2>2, Zenon
  <2>4. QED BY <2>1, <2>2, <2>3, Zenon
<1>10. QED BY <1>1, <1>4, <1>7, <1>8, <1>9

(* ... so it removes this item and no other.                               *)
LEMMA EraseItems ==
  ASSUME NEW q \in Seq(Pipes), NEW p \in Pipes, Has(q, p), NoDup(q)
  PROVE  /\ Erase(q, p) \in Seq(Pipes) /\ NoDup(Erase(q, p))
         /\ \A x \in Pipes : Has(Erase(q, p), x) <=> Has(q, x) /\ x # p
<1> DEFINE e == Erase(q, p)
           a == At(q, p)
<1>1. /\ a \in 1 .. Len(q) /\ q[a] = p
      /\ e \in Seq(Pipes) /\ Len(e) = Len(q) - 1
      /\ \A i \in 1 .. Len(q) - 1 : e[i] = IF i < a THEN q[i] ELSE q[i + 1]
  BY EraseFacts
<1> HIDE DEF e, a
<1>2. NoDup(e)
  <2> DEFINE pos(i) == IF i < a THEN i ELSE i + 1
  <2>1. \A i \in 1 .. Len(e) : pos(i) \in 1 .. Len(q) /\ e[i] = q[pos(i)]
    BY <1>1
  <2>2. \A i, j \in 1 .. Len(e) : pos(i) = pos(j) => i = j
    BY <1>1
  <2> HIDE DEF pos
  <2>3. QED BY <2>1, <2>2 DEF NoDup
<1>3. ASSUME NEW x \in Pipes, Has(e, x) PROVE Has(q, x) /\ x # p
  BY <1>1, <1>3 DEF NoDup, Has
<1>4. ASSUME NEW x \in Pipes, Has(q, x), x # p PROVE Has(e, x)
  <2>1. PICK i \in 1 .. Len(q) : q[i] = x BY <1>4 DEF Has
  <2>2. i # a BY <1>1, <1>4, <2>1
  <2>3. CASE i < a
    <3>1. i \in 1 .. Len(e) /\ e[i] = x BY <1>1, <2>1, <2>3
    <3>2. QED BY <3>1 DEF Has
  <2>4. CASE i > a
    <3>1. i - 1 \in 1 .. Len(e) /\ e[i - 1] = x BY <1>1, <2>1, <2>4
    <3>2. QED BY <3>1 DEF Has
  <2>5. QED BY <1>1, <2>2, <2>3, <2>4
<1>5. QED BY <1>1, <1>2, <1>3, <1>4 DEF e

(* Appending a new item adds it and no other.                              *)
LEMMA AppendItems ==
  ASSUME NEW q \in Seq(Pipes), NEW p \in Pipes, ~ Has(q, p), NoDup(q)
  PROVE  /\ Append(q, p) \in Seq(Pipes) /\ NoDup(Append(q, p)) /\ Append(q, p) # <<>>
         /\ \A x \in Pipes : Has(Append(q, p), x) <=> Has(q, x) \/ x = p
<1>1. /\ Append(q, p) \in Seq(Pipes) /\ Len(Append(q, p)) = Len(q) + 1 /\ Len(q) \in Nat
      /\ \A i \in 1 .. Len(q) : Append(q, p)[i] = q[i]
      /\ Append(q, p)[Len(q) + 1] = p /\ Append(q, p) # <<>>
  OBVIOUS
<1>2. NoDup(Append(q, p))
  BY <1>1 DEF NoDup, Has
<1>3. ASSUME NEW x \in Pipes PROVE Has(Append(q, p), x) <=> Has(q, x) \/ x = p
  <2>1. ASSUME Has(Append(q, p), x) PROVE Has(q, x) \/ x = p
    BY <1>1, <2>1 DEF Has
  <2>2. ASSUME Has(q, x) PROVE Has(Append(q, p), x)
    <3>1. PICK i \in 1 .. Len(q) : q[i] = x BY <2>2 DEF Has
    <3>2. i \in 1 .. Len(Append(q, p)) /\ Append(q, p)[i] = x BY <1>1, <3>1
    <3>3. QED BY <3>2 DEF Has
  <2>3. Has(Append(q, p), p)
    BY <1>1 DEF Has
  <2>4. QED BY <2>1, <2>2, <2>3
<1>4. QED BY <1>1, <1>2, <1>3

(* Where the cursor of a slot goes from an item p: on the list without p   *)
(* it is on an item, unless the list is empty.                             *)
OnList(q, c) == IF q = <<>> THEN c = NULL ELSE c \in Pipes /\ Has(q, c)
Moved(q, r, p) == IF After(q, p) = NULL THEN Begin(r) ELSE After(q, p)

LEMMA CursorMoves ==
  ASSUME NEW q \in Seq(Pipes), NEW p \in Pipes, Has(q, p), NoDup(q),
         NEW r \in {q, Erase(q, p)}
  PROVE  OnList(r, Moved(q, r, p))
<1>1. /\ At(q, p) \in 1 .. Len(q) /\ q[At(q, p)] = p
      /\ Erase(q, p) \in Seq(Pipes) /\ Len(Erase(q, p)) = Len(q) - 1
      /\ \A x \in Pipes : Has(Erase(q, p), x) <=> Has(q, x) /\ x # p
  BY EraseFacts, EraseItems
<1>2. r \in Seq(Pipes)
  BY <1>1
<1>3. CASE At(q, p) = Len(q)
  <2>1. Moved(q, r, p) = Begin(r)
    BY <1>3 DEF Moved, After
  <2>2. CASE r = <<>>
    BY <2>1, <2>2 DEF OnList, Begin
  <2>3. CASE r # <<>>
    <3>1. 1 \in 1 .. Len(r) /\ r[1] \in Pipes /\ Begin(r) = r[1]
      BY <1>2, <2>3 DEF Begin
    <3>2. QED BY <2>1, <2>3, <3>1 DEF OnList, Has
  <2>4. QED BY <2>2, <2>3
<1>4. CASE At(q, p) # Len(q)
  <2> DEFINE n == q[At(q, p) + 1]
  <2>1. At(q, p) + 1 \in 1 .. Len(q)
    BY <1>1, <1>4
  <2>2. n \in Pipes /\ Has(q, n) /\ n # p
    BY <1>1, <2>1 DEF Has, NoDup
  <2>3. Moved(q, r, p) = n
    BY <1>4, <2>2, PriolistAssumption DEF Moved, After
  <2>4. Has(r, n)
    BY <1>1, <2>2
  <2>5. r # <<>>
    BY <2>4 DEF Has
  <2>6. QED BY <2>2, <2>3, <2>4, <2>5 DEF OnList
<1>5. QED BY <1>3, <1>4

(* The loop over the slots stops at the first one with a pipe in it.       *)
LEMMA FirstNonEmptyFacts ==
  ASSUME NEW lists \in [Prios -> Seq(Pipes)], NEW k \in Prios
  PROVE  LET f == FirstNonEmpty(lists, k) IN
         \/ f = -1 /\ \A j \in k .. NSlots : lists[j] = <<>>
         \/ /\ f \in k .. NSlots /\ lists[f] # <<>>
            /\ \A i \in k .. f - 1 : lists[i] = <<>>
<1> DEFINE T == {j \in k .. NSlots : lists[j] # <<>>}
<1>0. k \in Nat /\ NSlots \in Nat BY PriolistAssumption DEF Prios
<1>1. CASE T = {}
  BY <1>1 DEF FirstNonEmpty
<1>2. CASE T # {}
  <2>1. T \subseteq Nat BY <1>0
  <2>2. PICK m \in T : \A y \in T : ~ (<<y, m>> \in OpToRel(<, Nat))
    <3> HIDE DEF T
    <3>1. QED BY <1>2, <2>1, NatLessThanWellFounded, WFMin
  <2>3. \A y \in T : ~ (y < m)
    BY <2>1, <2>2 DEF OpToRel
  <2>4. /\ m \in k .. NSlots /\ lists[m] # <<>>
        /\ \A i \in k .. m - 1 : lists[i] = <<>>
    BY <1>0, <2>3
  <2>5. QED
    BY <2>4 DEF FirstNonEmpty
<1>3. QED BY <1>1, <1>2

-----------------------------------------------------------------------------
(* A list operation changes the list of one slot and puts its cursor back  *)
(* on it; the slot is then as the others are.                              *)
LEMMA SlotChanged ==
  ASSUME Shape, NEW k \in Prios, NEW q \in Seq(Pipes), NoDup(q), NEW c, OnList(q, c),
         slots' = [slots EXCEPT ![k] = q], cur' = [cur EXCEPT ![k] = c]
  PROVE  /\ slots' \in [Prios -> Seq(Pipes)] /\ cur' \in [Prios -> Pipes \cup {NULL}]
         /\ \A j \in Prios : NoDup(slots'[j])
         /\ \A j \in Prios : OnList(slots'[j], cur'[j])
<1>1. c \in Pipes \cup {NULL}
  BY DEF OnList
<1>2. slots' \in [Prios -> Seq(Pipes)] /\ cur' \in [Prios -> Pipes \cup {NULL}]
  BY <1>1 DEF Shape
<1>3. ASSUME NEW j \in Prios PROVE NoDup(slots'[j]) /\ OnList(slots'[j], cur'[j])
  <2>1. CASE j = k
    BY <2>1 DEF Shape
  <2>2. CASE j # k
    <3>1. slots'[j] = slots[j] /\ cur'[j] = cur[j] /\ slots[j] \in Seq(Pipes)
      BY <2>2 DEF Shape
    <3>2. NoDup(slots[j]) /\ cur[j] \in Pipes \cup {NULL}
      BY DEF Shape
    <3>3. IF slots[j] = <<>> THEN cur[j] = NULL ELSE Has(slots[j], cur[j])
      BY DEF Shape, CurrentIsBest, Has
    <3>4. Has(slots[j], cur[j]) => cur[j] \in Pipes
      BY <3>1 DEF Has
    <3>5. OnList(slots[j], cur[j])
      BY <3>3, <3>4 DEF OnList
    <3>6. QED BY <3>1, <3>2, <3>5
  <2>3. QED BY <2>1, <2>2
<1>4. QED BY <1>2, <1>3

(* Shape again, from its parts.                                            *)
LEMMA ShapeFrom ==
  ASSUME slots' \in [Prios -> Seq(Pipes)], cur' \in [Prios -> Pipes \cup {NULL}],
         \A j \in Prios : NoDup(slots'[j]),
         \A j \in Prios : OnList(slots'[j], cur'[j]),
         \/ current' = -1 /\ \A j \in Prios : slots'[j] = <<>>
         \/ /\ current' \in Prios /\ slots'[current'] # <<>>
            /\ \A j \in 1 .. current' - 1 : slots'[j] = <<>>
  PROVE  Shape'
<1>1. current' \in {-1} \cup Prios
  OBVIOUS
<1>2. \A j \in Prios : IF slots'[j] = <<>> THEN cur'[j] = NULL
                       ELSE \E i \in 1 .. Len(slots'[j]) : slots'[j][i] = cur'[j]
  BY DEF OnList, Has
<1>3. CurrentIsBest'
  BY <1>2, PriolistAssumption DEF CurrentIsBest, Prios
<1>4. QED BY <1>1, <1>3 DEF Shape

(* The best slot is current, with the range of the slots spelled out.      *)
LEMMA ShapeBest ==
  ASSUME Shape
  PROVE  \/ current = -1 /\ \A j \in Prios : slots[j] = <<>>
         \/ /\ current \in Prios /\ slots[current] # <<>>
            /\ \A j \in 1 .. current - 1 : slots[j] = <<>>
  BY DEF Shape, CurrentIsBest

(* nn_priolist_activate lists the pipe, and no other.                      *)
LEMMA ActivateFacts ==
  ASSUME Shape, NEW p \in Pipes, prio[p] \in Prios, ~ Has(slots[prio[p]], p),
         nn_priolist_activate(p)
  PROVE  /\ Shape'
         /\ \A j \in Prios, x \in Pipes :
              Has(slots'[j], x) <=> Has(slots[j], x) \/ (j = prio[p] /\ x = p)
<1> DEFINE k == prio[p]
           q == Append(slots[k], p)
<1>1. slots[k] \in Seq(Pipes) /\ NoDup(slots[k]) /\ slots \in [Prios -> Seq(Pipes)]
      /\ cur \in [Prios -> Pipes \cup {NULL}]
  BY DEF Shape
<1>2. /\ q \in Seq(Pipes) /\ NoDup(q) /\ q # <<>>
      /\ \A x \in Pipes : Has(q, x) <=> Has(slots[k], x) \/ x = p
  BY <1>1, AppendItems
<1>3. slots' = [slots EXCEPT ![k] = q]
  BY DEF nn_priolist_activate
<1> HIDE DEF q
<1>4. \A j \in Prios, x \in Pipes :
        Has(slots'[j], x) <=> Has(slots[j], x) \/ (j = k /\ x = p)
  BY <1>1, <1>2, <1>3
<1>5. \A j \in Prios : j # k => slots'[j] = slots[j]
  BY <1>1, <1>3
<1>6. slots'[k] = q
  BY <1>1, <1>3
<1>7. CASE slots[k] # <<>>
  <2>1. cur' = cur /\ current' = current
    BY <1>7 DEF nn_priolist_activate
  <2>2. OnList(q, cur[k])
    <3>1. cur[k] \in Pipes \cup {NULL} /\ Has(slots[k], cur[k])
      BY <1>7, <1>1 DEF Shape, CurrentIsBest, Has
    <3>2. cur[k] \in Pipes
      BY <1>1, <3>1 DEF Has
    <3>3. QED BY <1>2, <3>1, <3>2 DEF OnList
  <2>3. cur' = [cur EXCEPT ![k] = cur[k]]
    BY <1>1, <2>1
  <2>4. /\ slots' \in [Prios -> Seq(Pipes)] /\ cur' \in [Prios -> Pipes \cup {NULL}]
        /\ \A j \in Prios : NoDup(slots'[j])
        /\ \A j \in Prios : OnList(slots'[j], cur'[j])
    BY <1>2, <1>3, <2>2, <2>3, SlotChanged
  <2>5. /\ current' \in Prios /\ slots'[current'] # <<>>
        /\ \A j \in 1 .. current' - 1 : slots'[j] = <<>>
    <3>1. /\ current \in Prios /\ slots[current] # <<>>
          /\ \A j \in 1 .. current - 1 : slots[j] = <<>>
      BY <1>7, ShapeBest
    <3>2. \A j \in 1 .. current - 1 : j # k /\ j \in Prios
      BY <1>7, <3>1, PriolistAssumption DEF Prios
    <3>3. QED BY <1>2, <1>5, <1>6, <2>1, <3>1, <3>2
  <2>6. QED BY <1>4, <2>4, <2>5, ShapeFrom
<1>8. CASE slots[k] = <<>>
  <2>1. /\ cur' = [cur EXCEPT ![k] = p]
        /\ current' = IF current = -1 \/ current > k THEN k ELSE current
    BY <1>8 DEF nn_priolist_activate
  <2>2. OnList(q, p)
    BY <1>2 DEF OnList
  <2>3. /\ slots' \in [Prios -> Seq(Pipes)] /\ cur' \in [Prios -> Pipes \cup {NULL}]
        /\ \A j \in Prios : NoDup(slots'[j])
        /\ \A j \in Prios : OnList(slots'[j], cur'[j])
    BY <1>2, <1>3, <2>1, <2>2, SlotChanged
  <2>4. /\ current' \in Prios /\ slots'[current'] # <<>>
        /\ \A j \in 1 .. current' - 1 : slots'[j] = <<>>
    <3>1. CASE current = -1
      <4>1. current' = k /\ \A j \in 1 .. k - 1 : j \in Prios /\ j # k /\ slots[j] = <<>>
        BY <2>1, <3>1, ShapeBest, PriolistAssumption DEF Prios
      <4>2. QED BY <1>2, <1>5, <1>6, <4>1
    <3>2. CASE current # -1
      <4>1. /\ current \in Prios /\ slots[current] # <<>> /\ current # k
            /\ \A j \in 1 .. current - 1 : slots[j] = <<>>
        BY <1>8, <3>2, ShapeBest
      <4>2. CASE current > k
        <5>1. current' = k /\ \A j \in 1 .. k - 1 : j \in Prios /\ j # k /\ slots[j] = <<>>
          BY <2>1, <4>1, <4>2, PriolistAssumption DEF Prios
        <5>2. QED BY <1>2, <1>5, <1>6, <5>1
      <4>3. CASE ~ (current > k)
        <5>1. current' = current /\ \A j \in 1 .. current - 1 : j \in Prios /\ j # k
          BY <2>1, <3>2, <4>1, <4>3, PriolistAssumption DEF Prios
        <5>2. QED BY <1>5, <4>1, <5>1
      <4>4. QED BY <4>2, <4>3
    <3>3. QED BY <3>1, <3>2
  <2>5. QED BY <1>4, <2>3, <2>4, ShapeFrom
<1>9. QED BY <1>7, <1>8

(* The current slot after its list has changed: the loop finds the next.   *)
LEMMA NextSlot ==
  ASSUME Shape, current \in Prios, NEW q \in Seq(Pipes),
         slots' = [slots EXCEPT ![current] = q],
         current' = FirstNonEmpty(slots', current)
  PROVE  \/ current' = -1 /\ \A j \in Prios : slots'[j] = <<>>
         \/ /\ current' \in Prios /\ slots'[current'] # <<>>
            /\ \A j \in 1 .. current' - 1 : slots'[j] = <<>>
<1>1. slots' \in [Prios -> Seq(Pipes)]
  BY DEF Shape
<1>2. \A j \in 1 .. current - 1 : slots'[j] = <<>>
  <2>1. \A j \in 1 .. current - 1 : j \in Prios /\ j # current /\ slots[j] = <<>>
    BY ShapeBest, PriolistAssumption DEF Prios
  <2>2. QED BY <2>1 DEF Shape
<1>3. \/ current' = -1 /\ \A j \in current .. NSlots : slots'[j] = <<>>
      \/ /\ current' \in current .. NSlots /\ slots'[current'] # <<>>
         /\ \A j \in current .. current' - 1 : slots'[j] = <<>>
  BY <1>1, FirstNonEmptyFacts
<1>4. /\ \A j \in Prios : j \in 1 .. current - 1 \/ j \in current .. NSlots
      /\ \A j \in current .. NSlots : /\ j \in Prios
                                     /\ \A i \in 1 .. j - 1 : \/ i \in 1 .. current - 1
                                                              \/ i \in current .. j - 1
  BY PriolistAssumption DEF Prios
<1>5. QED
  BY <1>2, <1>3, <1>4

(* nn_priolist_rm takes the pipe off its list, and no other.               *)
LEMMA RmFacts ==
  ASSUME Shape, NEW p \in Pipes, prio[p] \in Prios,
         \A j \in Prios : Has(slots[j], p) => j = prio[p],
         nn_priolist_rm(p)
  PROVE  /\ Shape'
         /\ \A j \in Prios, x \in Pipes : Has(slots'[j], x) <=> Has(slots[j], x) /\ x # p
<1> DEFINE k == prio[p]
           q == Erase(slots[k], p)
<1>1. /\ slots \in [Prios -> Seq(Pipes)] /\ cur \in [Prios -> Pipes \cup {NULL}]
      /\ slots[k] \in Seq(Pipes) /\ NoDup(slots[k])
  BY DEF Shape
<1>2. CASE ~ Listed(p)
  <2>1. UNCHANGED <<slots, cur, current>>
    BY <1>2 DEF nn_priolist_rm
  <2>2. \A j \in Prios : ~ Has(slots[j], p)
    BY <1>2 DEF Listed, Has
  <2>3. Shape'
    BY <2>1 DEF Shape, CurrentIsBest
  <2>4. QED BY <2>1, <2>2, <2>3
<1>3. CASE Listed(p)
  <2>1. Has(slots[k], p)
    BY <1>3 DEF Listed, Has
  <2>2. /\ q \in Seq(Pipes) /\ NoDup(q)
        /\ \A x \in Pipes : Has(q, x) <=> Has(slots[k], x) /\ x # p
    BY <1>1, <2>1, EraseItems
  <2>3. slots' = [slots EXCEPT ![k] = q]
    BY <1>3 DEF nn_priolist_rm
  <2>4. slots[k] # <<>>
    BY <2>1 DEF Has
  <2>5. /\ current \in Prios /\ slots[current] # <<>>
        /\ \A j \in 1 .. current - 1 : slots[j] = <<>>
    BY <2>4, ShapeBest
  <2>6. k >= current
    BY <2>4, <2>5, PriolistAssumption DEF Prios
  <2>7. \A j \in Prios, x \in Pipes : Has(slots'[j], x) <=> Has(slots[j], x) /\ x # p
    <3> HIDE DEF q
    <3>1. QED BY <1>1, <2>2, <2>3
  <2>8. CASE cur[k] # p
    <3>1. cur' = [cur EXCEPT ![k] = cur[k]] /\ current' = current
      BY <1>1, <1>3, <2>8 DEF nn_priolist_rm
    <3>2. cur[k] \in Pipes /\ Has(slots[k], cur[k])
      BY <1>1, <2>4 DEF Shape, CurrentIsBest, Has
    <3>3. Has(q, cur[k]) /\ q # <<>>
      BY <2>2, <2>8, <3>2 DEF Has
    <3>4. OnList(q, cur[k])
      BY <3>2, <3>3 DEF OnList
    <3> HIDE DEF q
    <3>5. /\ slots' \in [Prios -> Seq(Pipes)] /\ cur' \in [Prios -> Pipes \cup {NULL}]
          /\ \A j \in Prios : NoDup(slots'[j])
          /\ \A j \in Prios : OnList(slots'[j], cur'[j])
      BY <2>2, <2>3, <3>1, <3>4, SlotChanged
    <3>6. slots'[current] # <<>>
      BY <1>1, <2>3, <2>5, <3>3
    <3>7. \A j \in 1 .. current - 1 : slots'[j] = <<>>
      <4>1. \A j \in 1 .. current - 1 : j \in Prios /\ j # k
        BY <2>5, <2>6, PriolistAssumption DEF Prios
      <4>2. QED BY <1>1, <2>3, <2>5, <4>1
    <3>8. QED BY <2>5, <2>7, <3>1, <3>5, <3>6, <3>7, ShapeFrom
  <2>9. CASE cur[k] = p
    <3> DEFINE c == Moved(slots[k], q, p)
    <3>1. /\ cur' = [cur EXCEPT ![k] = c]
          /\ current' = IF current = k THEN FirstNonEmpty(slots', k) ELSE current
      BY <1>3, <2>3, <2>9 DEF nn_priolist_rm, Moved
    <3>2. OnList(q, c)
      BY <1>1, <2>1, CursorMoves
    <3> HIDE DEF q, c
    <3>3. /\ slots' \in [Prios -> Seq(Pipes)] /\ cur' \in [Prios -> Pipes \cup {NULL}]
          /\ \A j \in Prios : NoDup(slots'[j])
          /\ \A j \in Prios : OnList(slots'[j], cur'[j])
      BY <2>2, <2>3, <3>1, <3>2, SlotChanged
    <3>4. CASE current = k
      <4>1. \/ current' = -1 /\ \A j \in Prios : slots'[j] = <<>>
            \/ /\ current' \in Prios /\ slots'[current'] # <<>>
               /\ \A j \in 1 .. current' - 1 : slots'[j] = <<>>
        BY <2>2, <2>3, <2>5, <3>1, <3>4, NextSlot
      <4>2. QED BY <2>7, <3>3, <4>1, ShapeFrom
    <3>5. CASE current # k
      <4>1. \A j \in 1 .. current - 1 : j \in Prios /\ j # k
        BY <2>5, <2>6, PriolistAssumption DEF Prios
      <4>2. /\ current' \in Prios /\ slots'[current'] # <<>>
            /\ \A j \in 1 .. current' - 1 : slots'[j] = <<>>
        BY <1>1, <2>3, <2>5, <3>1, <3>5, <4>1
      <4>3. QED BY <2>7, <3>3, <4>2, ShapeFrom
    <3>6. QED BY <3>4, <3>5
  <2>10. QED BY <2>8, <2>9
<1>4. QED BY <1>2, <1>3

(* The cursor of the current slot is on a pipe of it.                      *)
LEMMA CurrentFacts ==
  ASSUME Shape, current # -1
  PROVE  /\ current \in Prios /\ cur[current] \in Pipes
         /\ Has(slots[current], cur[current])
<1>1. current \in Prios /\ slots[current] # <<>>
  BY ShapeBest
<1>2. slots \in [Prios -> Seq(Pipes)] /\ cur \in [Prios -> Pipes \cup {NULL}]
  BY DEF Shape
<1>3. QED BY <1>1, <1>2 DEF Shape, CurrentIsBest, Has

(* nn_priolist_advance takes the pipe just used off its list when it was   *)
(* released, and no other.                                                 *)
LEMMA AdvanceFacts ==
  ASSUME Shape, current # -1, NEW release \in BOOLEAN, nn_priolist_advance(release)
  PROVE  /\ Shape'
         /\ current \in Prios /\ cur[current] \in Pipes /\ Has(slots[current], cur[current])
         /\ \A j \in Prios, x \in Pipes :
              Has(slots'[j], x) <=>
                Has(slots[j], x) /\ ~ (release /\ j = current /\ x = cur[current])
<1> DEFINE k == current
           p == cur[current]
           q == IF release THEN Erase(slots[k], p) ELSE slots[k]
           c == Moved(slots[k], q, p)
<1>1. current \in Prios /\ slots[current] # <<>>
  BY ShapeBest
<1>2. /\ slots \in [Prios -> Seq(Pipes)] /\ cur \in [Prios -> Pipes \cup {NULL}]
      /\ slots[k] \in Seq(Pipes) /\ NoDup(slots[k])
  BY <1>1 DEF Shape
<1>3. p \in Pipes /\ Has(slots[k], p)
  BY CurrentFacts
<1>4. /\ q \in Seq(Pipes) /\ NoDup(q)
      /\ \A x \in Pipes : Has(q, x) <=> Has(slots[k], x) /\ ~ (release /\ x = p)
  BY <1>2, <1>3, EraseItems
<1>5. OnList(q, c)
  BY <1>2, <1>3, CursorMoves
<1>6. /\ slots' = [slots EXCEPT ![k] = q] /\ cur' = [cur EXCEPT ![k] = c]
      /\ current' = FirstNonEmpty(slots', k)
  BY DEF nn_priolist_advance, Moved
<1> HIDE DEF q, c
<1>7. /\ slots' \in [Prios -> Seq(Pipes)] /\ cur' \in [Prios -> Pipes \cup {NULL}]
      /\ \A j \in Prios : NoDup(slots'[j])
      /\ \A j \in Prios : OnList(slots'[j], cur'[j])
  BY <1>1, <1>4, <1>5, <1>6, SlotChanged
<1>8. \/ current' = -1 /\ \A j \in Prios : slots'[j] = <<>>
      \/ /\ current' \in Prios /\ slots'[current'] # <<>>
         /\ \A j \in 1 .. current' - 1 : slots'[j] = <<>>
  BY <1>1, <1>4, <1>6, NextSlot
<1>9. Shape'
  BY <1>7, <1>8, ShapeFrom
<1>10. \A j \in Prios, x \in Pipes :
         Has(slots'[j], x) <=> Has(slots[j], x) /\ ~ (release /\ j = k /\ x = p)
  BY <1>1, <1>2, <1>4, <1>6
<1>11. QED BY <1>1, <1>3, <1>9, <1>10

-----------------------------------------------------------------------------
(* The queue of events without its first.                                  *)
LEMMA TailItems ==
  ASSUME NEW q \in Seq(Pipes), q # <<>>, NoDup(q)
  PROVE  /\ Head(q) \in Pipes /\ Has(q, Head(q))
         /\ Tail(q) \in Seq(Pipes) /\ NoDup(Tail(q))
         /\ \A x \in Pipes : Has(Tail(q), x) <=> Has(q, x) /\ x # Head(q)
<1>1. /\ Len(q) \in Nat \ {0} /\ Head(q) = q[1] /\ q[1] \in Pipes
      /\ Tail(q) \in Seq(Pipes) /\ Len(Tail(q)) = Len(q) - 1
      /\ \A i \in 1 .. Len(q) - 1 : Tail(q)[i] = q[i + 1]
  OBVIOUS
<1>2. NoDup(Tail(q))
  BY <1>1 DEF NoDup
<1>3. ASSUME NEW x \in Pipes, Has(Tail(q), x) PROVE Has(q, x) /\ x # Head(q)
  BY <1>1, <1>3 DEF Has, NoDup
<1>4. ASSUME NEW x \in Pipes, Has(q, x), x # Head(q) PROVE Has(Tail(q), x)
  <2>1. PICK i \in 1 .. Len(q) : q[i] = x BY <1>4 DEF Has
  <2>2. i - 1 \in 1 .. Len(Tail(q)) /\ Tail(q)[i - 1] = x BY <1>1, <1>4, <2>1
  <2>3. QED BY <2>2 DEF Has
<1>5. QED BY <1>1, <1>2, <1>3, <1>4 DEF Has

(* nn_priolist_init.                                                       *)
LEMMA InitInv == Init => IInv
<1> SUFFICES ASSUME Init PROVE IInv
  OBVIOUS
<1>1. TypeOK
  BY PriolistAssumption DEF Init, TypeOK
<1>2. \A p \in Pipes : ~ Has(raised, p)
  BY DEF Init, Has
<1>3. NoDup(raised) /\ \A k \in Prios : NoDup(slots[k])
  BY DEF Init, NoDup
<1>4. CurrentIsBest
  BY PriolistAssumption DEF Init, CurrentIsBest, Prios
<1>5. Shape
  BY <1>1, <1>3, <1>4 DEF Shape, TypeOK
<1>6. \A k \in Prios, p \in Pipes : ~ Has(slots[k], p) /\ ~ Ready(p, k)
  BY DEF Init, Has, Ready
<1>7. QED
  BY <1>1, <1>2, <1>3, <1>5, <1>6 DEF IInv, RaisedReady, ListedReady, Init

(* The socket's end at the event of a pipe that it has removed.            *)
LEMMA BreakInv ==
  ASSUME IInv, Break("freed")
  PROVE  IInv'
<1>1. UNCHANGED <<kind, prio, pst, raised, slots, cur, current>> /\ broken' = "freed"
  BY DEF Break
<1>2. TypeOK' /\ Shape'
  BY <1>1 DEF IInv, TypeOK, Shape, CurrentIsBest
<1>3. RaisedReady' /\ ListedReady'
  BY <1>1 DEF IInv, RaisedReady, ListedReady, Ready
<1>4. QED BY <1>1, <1>2, <1>3 DEF IInv

(* A pipe becomes ready and raises its event: nn_pipebase_start of an      *)
(* outbound pipe, nn_pipebase_received and nn_pipebase_sent.               *)
LEMMA RaiseInv ==
  ASSUME IInv, NEW p \in Pipes, NEW k \in Prios, \A j \in Prios : ~ Ready(p, j),
         ~ Has(raised, p),
         prio' = [prio EXCEPT ![p] = k], pst' = [pst EXCEPT ![p] = "IDLE"],
         raised' = Append(raised, p), UNCHANGED <<kind, slots, cur, current, broken>>
  PROVE  IInv'
<1>1. TypeOK /\ Shape /\ RaisedReady /\ ListedReady
  BY DEF IInv
<1>2. \A j \in Prios : ~ Has(slots[j], p)
  BY <1>1 DEF ListedReady
<1>3. /\ raised' \in Seq(Pipes) /\ NoDup(raised')
      /\ \A x \in Pipes : Has(raised', x) <=> Has(raised, x) \/ x = p
  BY <1>1, AppendItems DEF TypeOK, RaisedReady
<1>4. TypeOK'
  BY <1>1, <1>3, PriolistAssumption DEF TypeOK, Prios
<1>5. Shape'
  BY <1>1 DEF Shape, CurrentIsBest
<1>6. /\ Ready(p, k)'
      /\ \A x \in Pipes \ {p} : prio'[x] = prio[x] /\ \A j \in Prios : Ready(x, j)' <=> Ready(x, j)
  BY <1>1 DEF Ready, TypeOK
<1>7. RaisedReady'
  BY <1>1, <1>3, <1>6 DEF RaisedReady
<1>8. ListedReady'
  BY <1>1, <1>2, <1>3, <1>6 DEF ListedReady
<1>9. QED BY <1>4, <1>5, <1>7, <1>8 DEF IInv

(* A pipe that is not ready stays so: nn_pipebase_start of an inbound pipe.*)
LEMMA StartInv ==
  ASSUME IInv, NEW p \in Pipes, NEW k \in Prios, nn_pipebase_start(p, k)
  PROVE  IInv'
<1>1. TypeOK /\ Shape /\ RaisedReady /\ ListedReady /\ prio[p] = 0 /\ ~ Has(raised, p)
  BY DEF IInv, nn_pipebase_start, Queued, Has
<1>2. \A j \in Prios : ~ Ready(p, j)
  BY <1>1 DEF Ready, Prios
<1>3. CASE kind = "lb"
  BY <1>1, <1>2, <1>3, RaiseInv DEF nn_pipebase_start
<1>4. CASE kind # "lb"
  <2>1. /\ prio' = [prio EXCEPT ![p] = k] /\ pst' = [pst EXCEPT ![p] = "ASYNC"]
        /\ UNCHANGED <<kind, raised, slots, cur, current, broken>>
    BY <1>4 DEF nn_pipebase_start
  <2>2. TypeOK'
    BY <1>1, <2>1, PriolistAssumption DEF TypeOK, Prios
  <2>3. Shape'
    BY <1>1, <2>1 DEF Shape, CurrentIsBest
  <2>4. \A x \in Pipes, j \in Prios : Ready(x, j)' <=> Ready(x, j)
    <3>1. \A j \in Prios : ~ Ready(p, j)'
      BY <1>1, <2>1 DEF Ready, TypeOK
    <3>2. \A x \in Pipes \ {p}, j \in Prios : Ready(x, j)' <=> Ready(x, j)
      BY <1>1, <2>1 DEF Ready, TypeOK
    <3>3. QED BY <1>2, <3>1, <3>2
  <2>5. \A x \in Pipes \ {p} : prio'[x] = prio[x]
    BY <1>1, <2>1 DEF TypeOK
  <2>6. RaisedReady' /\ ListedReady'
    BY <1>1, <2>1, <2>4, <2>5 DEF RaisedReady, ListedReady
  <2>7. QED
    BY <2>1, <2>2, <2>3, <2>6 DEF IInv
<1>5. QED BY <1>3, <1>4

(* The transport has finished what released the pipe.                      *)
LEMMA ReadyInv ==
  ASSUME IInv, NEW p \in Pipes, nn_pipebase_ready(p)
  PROVE  IInv'
<1>1. /\ prio[p] # 0 /\ pst[p] = "ASYNC" /\ pst' = [pst EXCEPT ![p] = "IDLE"]
      /\ raised' = Append(raised, p) /\ UNCHANGED <<kind, prio, slots, cur, current, broken>>
  BY DEF nn_pipebase_ready
<1>2. prio[p] \in Prios /\ prio' = [prio EXCEPT ![p] = prio[p]]
  BY <1>1, PriolistAssumption DEF IInv, TypeOK, Prios
<1>3. \A j \in Prios : ~ Ready(p, j)
  BY <1>1 DEF Ready
<1>4. ~ Has(raised, p)
  BY <1>1, <1>3 DEF IInv, RaisedReady
<1>5. QED BY <1>1, <1>2, <1>3, <1>4, RaiseInv

(* The pipe of the event at the head of the queue has been removed, or it  *)
(* is ready and not listed.                                                *)
LEMMA FeedInv ==
  ASSUME IInv, FeedPipeEvent
  PROVE  IInv'
<1> DEFINE p == Head(raised)
<1>1. CASE prio[p] = 0
  BY <1>1, BreakInv DEF FeedPipeEvent
<1>2. SUFFICES ASSUME prio[p] # 0 PROVE IInv'
  BY <1>1
<1>3. /\ TypeOK /\ Shape /\ RaisedReady /\ ListedReady /\ raised # <<>>
      /\ p \in Pipes /\ Has(raised, p)
      /\ Tail(raised) \in Seq(Pipes) /\ NoDup(Tail(raised))
      /\ \A x \in Pipes : Has(Tail(raised), x) <=> Has(raised, x) /\ x # p
  BY TailItems DEF IInv, FeedPipeEvent, TypeOK, RaisedReady
<1>4. PICK k \in Prios : Ready(p, k)
  BY <1>3, <1>2 DEF RaisedReady
<1>5. prio[p] = k /\ ~ Has(slots[k], p)
  BY <1>3, <1>4 DEF Ready, ListedReady
<1>6. ~ Listed(p)
  BY <1>3 DEF ListedReady, Listed, Has
<1>7. /\ TypeOK /\ Shape /\ RaisedReady /\ ListedReady
      /\ nn_priolist_activate(p) /\ raised' = Tail(raised)
      /\ UNCHANGED <<kind, prio, pst, broken>> /\ broken # "assertion"
  BY <1>3, <1>2, <1>6 DEF FeedPipeEvent, IInv
<1>8. /\ p \in Pipes /\ Has(raised, p)
      /\ raised' \in Seq(Pipes) /\ NoDup(raised')
      /\ \A x \in Pipes : Has(raised', x) <=> Has(raised, x) /\ x # p
  BY <1>3, <1>7
<1> HIDE DEF p
<1>9. /\ Shape'
      /\ \A j \in Prios, x \in Pipes :
           Has(slots'[j], x) <=> Has(slots[j], x) \/ (j = k /\ x = p)
  BY <1>7, <1>8, <1>5, ActivateFacts
<1>10. TypeOK'
  BY <1>7, <1>8, <1>9 DEF TypeOK, Shape
<1>11. \A x \in Pipes, j \in Prios : Ready(x, j)' <=> Ready(x, j)
  BY <1>7 DEF Ready
<1>12. RaisedReady'
  BY <1>7, <1>8, <1>11 DEF RaisedReady
<1>13. \A j \in Prios : Ready(p, j) <=> j = k
  BY <1>4 DEF Ready
<1>14. ListedReady'
  BY <1>7, <1>8, <1>9, <1>11, <1>13 DEF ListedReady
<1>15. QED BY <1>7, <1>9, <1>10, <1>12, <1>14 DEF IInv

(* nn_fq_recv and nn_lb_send use a ready pipe.                             *)
LEMMA UseInv ==
  ASSUME IInv, NEW release \in BOOLEAN, Use(release)
  PROVE  IInv'
<1> DEFINE p == cur[current]
<1>0. /\ TypeOK /\ Shape /\ RaisedReady /\ ListedReady /\ broken # "assertion"
      /\ current # -1
  BY DEF IInv, Use
<1>10. pst[p] = "IDLE"
  <2>1. current \in Prios /\ p \in Pipes /\ Has(slots[current], p)
    BY <1>0, CurrentFacts
  <2>2. QED BY <1>0, <2>1 DEF ListedReady, Ready
<1>1. /\ TypeOK /\ Shape /\ RaisedReady /\ ListedReady /\ current # -1
      /\ pst' = [pst EXCEPT ![p] = IF release THEN "ASYNC" ELSE "IDLE"]
      /\ nn_priolist_advance(release) /\ UNCHANGED <<kind, prio, raised, broken>>
  BY <1>0, <1>10 DEF Use
<1>2. /\ Shape' /\ current \in Prios /\ p \in Pipes /\ Has(slots[current], p)
      /\ \A j \in Prios, x \in Pipes :
           Has(slots'[j], x) <=> Has(slots[j], x) /\ ~ (release /\ j = current /\ x = p)
  BY <1>1, AdvanceFacts
<1> HIDE DEF p
<1>3. TypeOK'
  BY <1>1, <1>2 DEF TypeOK, Shape
<1>4. Ready(p, current) /\ ~ Has(raised, p)
  BY <1>1, <1>2 DEF ListedReady
<1>5. \A x \in Pipes, j \in Prios : Ready(x, j)' <=> Ready(x, j) /\ ~ (release /\ x = p)
  BY <1>1, <1>2, <1>4 DEF Ready, TypeOK
<1>6. RaisedReady'
  BY <1>1, <1>4, <1>5 DEF RaisedReady
<1>7. \A j \in Prios : Has(slots[j], p) => j = current
  BY <1>1, <1>2, <1>4 DEF ListedReady, Ready
<1>8. ListedReady'
  BY <1>1, <1>2, <1>5, <1>7 DEF ListedReady
<1>9. QED BY <1>0, <1>1, <1>2, <1>3, <1>6, <1>8 DEF IInv

(* A pipe leaves the socket.                                               *)
LEMMA StopInv ==
  ASSUME IInv, NEW p \in Pipes, nn_pipebase_stop(p)
  PROVE  IInv'
<1>1. /\ TypeOK /\ Shape /\ RaisedReady /\ ListedReady
      /\ prio[p] # 0 /\ nn_priolist_rm(p) /\ prio' = [prio EXCEPT ![p] = 0]
      /\ UNCHANGED <<kind, pst, raised, broken>> /\ broken # "assertion"
  BY DEF IInv, nn_pipebase_stop
<1>2. prio[p] \in Prios
  BY <1>1, PriolistAssumption DEF TypeOK, Prios
<1>3. \A j \in Prios : Has(slots[j], p) => j = prio[p]
  BY <1>1 DEF ListedReady, Ready
<1>4. /\ Shape'
      /\ \A j \in Prios, x \in Pipes : Has(slots'[j], x) <=> Has(slots[j], x) /\ x # p
  BY <1>1, <1>2, <1>3, RmFacts
<1>5. TypeOK'
  BY <1>1, <1>4, PriolistAssumption DEF TypeOK, Shape
<1>6. /\ \A x \in Pipes, j \in Prios : Ready(x, j)' <=> Ready(x, j) /\ x # p
      /\ prio'[p] = 0 /\ \A x \in Pipes \ {p} : prio'[x] = prio[x]
  BY <1>1 DEF Ready, TypeOK, Prios
<1>7. RaisedReady'
  BY <1>1, <1>6 DEF RaisedReady
<1>8. ListedReady'
  BY <1>1, <1>4, <1>6 DEF ListedReady
<1>9. QED
  BY <1>1, <1>4, <1>5, <1>7, <1>8 DEF IInv

(* Every step keeps the invariant.                                         *)
LEMMA NextInv == IInv /\ [Next]_vars => IInv'
<1> SUFFICES ASSUME IInv, [Next]_vars PROVE IInv'
  OBVIOUS
<1>1. ASSUME UNCHANGED vars PROVE IInv'
  BY <1>1 DEF vars, IInv, TypeOK, Shape, CurrentIsBest, RaisedReady, ListedReady, Ready
<1>2. ASSUME NEW p \in Pipes, NEW k \in Prios, nn_pipebase_start(p, k) PROVE IInv'
  BY <1>2, StartInv
<1>3. ASSUME NEW p \in Pipes, nn_pipebase_ready(p) PROVE IInv'
  BY <1>3, ReadyInv
<1>4. ASSUME NEW p \in Pipes, nn_pipebase_stop(p) PROVE IInv'
  BY <1>4, StopInv
<1>5. ASSUME FeedPipeEvent PROVE IInv'
  BY <1>5, FeedInv
<1>6. ASSUME nn_fq_recv \/ nn_lb_send PROVE IInv'
  <2>1. \E release \in BOOLEAN : Use(release)
    BY <1>6 DEF nn_fq_recv, nn_lb_send
  <2>2. QED BY <2>1, UseInv
<1>7. QED
  BY <1>1, <1>2, <1>3, <1>4, <1>5, <1>6 DEF Next, Dead

(* The inductive invariant holds throughout.                               *)
THEOREM Inductive == Spec => []IInv
  BY InitInv, NextInv, PTL DEF Spec

(* For any number of pipes and priorities, whatever the order in which     *)
(* pipes come, become ready, are used and go, also a pipe that goes with   *)
(* its event still queued: nn_priolist has the best slot current, each     *)
(* cursor on a pipe of its slot, and exactly the ready pipes listed, so    *)
(* nn_fq_recv and nn_lb_send never use a pipe that is busy or gone and     *)
(* none of the assertions fails.                                           *)
THEOREM PriolistSound == Spec => []Sound
<1>1. IInv => Sound
  <2> SUFFICES ASSUME IInv PROVE Sound
    OBVIOUS
  <2>1. TypeOK /\ Shape /\ RaisedReady /\ ListedReady /\ broken # "assertion"
    BY DEF IInv
  <2>2. ASSUME NEW p \in Pipes
        PROVE  Listed(p) <=> prio[p] # 0 /\ pst[p] = "IDLE" /\ ~ Queued(p)
    <3>1. Listed(p) <=> \E k \in Prios : Has(slots[k], p)
      BY DEF Listed, Has
    <3>2. prio[p] # 0 <=> prio[p] \in Prios
      BY <2>1, PriolistAssumption DEF TypeOK, Prios
    <3>3. Has(raised, p) <=> Queued(p)
      BY DEF Has, Queued
    <3>4. QED BY <2>1, <3>1, <3>2, <3>3 DEF ListedReady, Ready
  <2>3. ASSUME NEW k \in Prios, NEW i \in 1 .. Len(slots[k]), NEW j \in 1 .. Len(slots[k])
        PROVE  prio[slots[k][i]] = k /\ (slots[k][i] = slots[k][j] => i = j)
    <3>1. slots[k][i] \in Pipes /\ Has(slots[k], slots[k][i])
      BY <2>1 DEF TypeOK, Has
    <3>2. QED BY <2>1, <3>1 DEF ListedReady, Ready, Shape, NoDup
  <2>4. QED BY <2>1, <2>2, <2>3 DEF Sound, ReadyPipesListed, Shape
<1>2. QED BY <1>1, Inductive, PTL
=============================================================================
