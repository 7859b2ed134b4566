-------------------------- MODULE EobjClassProofs ---------------------------
(***************************************************************************)
(* Proofs about the classes of eobj, for any number of classes, signals,   *)
(* properties and objects: an application that extends a class only while  *)
(* nothing was made from it (Late is FALSE) has codes that mean the same   *)
(* signal everywhere, objects with a list of callbacks for each, and       *)
(* properties that read as they were set.                                  *)
(***************************************************************************)
EXTENDS EobjProperty, SequenceTheorems, WellFoundedInduction, TLAPS

\* The classes that exist inherit from classes that exist.
Linked == \A c \in made : Elements(chain[c]) \subseteq made

ClassInv ==
    /\ ClassTypeOK /\ Linked
    /\ CodesAreInherited /\ CodesAreCurrent /\ ListsForAllSignals

LEMMA ElementsInSet ==
    ASSUME NEW S, NEW s \in Seq(S)
    PROVE  Elements(s) \subseteq S
BY DEF Elements

\* What a sequence is followed by leaves its elements where they are.
LEMMA ConcatKeeps ==
    ASSUME NEW S, NEW s \in Seq(S), NEW t \in Seq(S)
    PROVE  /\ s \o t \in Seq(S)
           /\ \A i \in DOMAIN s : i \in DOMAIN (s \o t) /\ (s \o t)[i] = s[i]
           /\ \A i \in DOMAIN t : Len(s) + i \in DOMAIN (s \o t) /\ (s \o t)[Len(s) + i] = t[i]
<1>1. /\ s \o t \in Seq(S) /\ Len(s \o t) = Len(s) + Len(t)
      /\ \A i \in 1..Len(s) : (s \o t)[i] = s[i]
      /\ \A i \in Len(s) + 1..Len(s) + Len(t) : (s \o t)[i] = t[i - Len(s)]
  BY ConcatProperties
<1>2. DOMAIN s = 1..Len(s) /\ DOMAIN t = 1..Len(t) /\ DOMAIN (s \o t) = 1..Len(s) + Len(t)
  BY <1>1
<1>3. ASSUME NEW i \in DOMAIN s
      PROVE  i \in DOMAIN (s \o t) /\ (s \o t)[i] = s[i]
  BY <1>1, <1>2
<1>4. ASSUME NEW i \in DOMAIN t
      PROVE  Len(s) + i \in DOMAIN (s \o t) /\ (s \o t)[Len(s) + i] = t[i]
  <2>1. i \in 1..Len(t) /\ Len(s) \in Nat /\ Len(t) \in Nat
    BY <1>2
  <2>2. Len(s) + i \in Len(s) + 1..Len(s) + Len(t) /\ (Len(s) + i) - Len(s) = i
    BY <2>1
  <2> QED BY <2>1, <2>2, <1>1, <1>2
<1> QED BY <1>1, <1>3, <1>4

\* The elements of a chain with one more class in front.
LEMMA ElementsOfLonger ==
    ASSUME NEW S, NEW p \in S, NEW s \in Seq(S)
    PROVE  <<p>> \o s \in Seq(S) /\ Elements(<<p>> \o s) \subseteq {p} \cup Elements(s)
<1> DEFINE t == <<p>> \o s
<1>1. /\ <<p>> \in Seq(S) /\ Len(<<p>>) = 1
  OBVIOUS
<1>2. /\ t \in Seq(S) /\ Len(t) = 1 + Len(s)
      /\ t[1] = p
      /\ \A i \in 1 + 1..1 + Len(s) : t[i] = s[i - 1]
  BY <1>1, ConcatProperties
<1> HIDE DEF t
<1>3. ASSUME NEW i \in DOMAIN t
      PROVE  t[i] = p \/ \E j \in DOMAIN s : t[i] = s[j]
  <2>1. CASE i = 1
    BY <2>1, <1>2
  <2>2. CASE i # 1
    <3>1. i - 1 \in DOMAIN s /\ t[i] = s[i - 1]
      BY <2>2, <1>2
    <3> QED BY <3>1
  <2> QED BY <2>1, <2>2
<1>4. Elements(t) \subseteq {p} \cup Elements(s)
  BY <1>3 DEF Elements
<1> QED BY <1>2, <1>4 DEF t

\* The codes that describe a class find its own signals after the inherited ones.
LEMMA DescribedFinds ==
    ASSUME ClassTypeOK, NEW c \in Classes, NEW p \in Classes \cup {None},
           NEW s \in Elements(Own[c])
    PROVE  /\ Described(c, p)[s] + 1 \in DOMAIN (Inherited(p) \o Own[c])
           /\ (Inherited(p) \o Own[c])[Described(c, p)[s] + 1] = s
           /\ Described(c, p)[s] \in Int
<1> DEFINE at == CHOOSE i \in DOMAIN Own[c] : Own[c][i] = s
           old == Inherited(p)
<1>1. Own[c] \in Seq(Signals) /\ s \in Signals
  BY EobjAssumption DEF Elements
<1>2. old \in Seq(Signals)
  BY DEF Inherited, ClassTypeOK
<1>3. at \in DOMAIN Own[c] /\ Own[c][at] = s
  BY DEF Elements
<1>4. Described(c, p)[s] = Len(old) + at - 1
  BY <1>1 DEF Described
<1>5. at \in Nat /\ Len(old) \in Nat
  <2>1. DOMAIN Own[c] = 1..Len(Own[c])
    BY <1>1
  <2> HIDE DEF at, old
  <2> QED BY <1>2, <1>3, <2>1
<1> HIDE DEF at
<1>6. Len(old) + at - 1 + 1 = Len(old) + at /\ Len(old) + at - 1 \in Int
  BY <1>5
<1>7. Len(old) + at \in DOMAIN (old \o Own[c]) /\ (old \o Own[c])[Len(old) + at] = s
  <2> HIDE DEF old
  <2> QED BY <1>1, <1>2, <1>3, ConcatKeeps
<1> QED BY <1>4, <1>6, <1>7

LEMMA ClassInitInv == ClassInit => ClassInv
BY EobjAssumption
   DEF ClassInit, ClassInv, ClassTypeOK, Linked, CodesAreInherited, CodesAreCurrent,
       ListsForAllSignals, Allocated, Unset

-----------------------------------------------------------------------------
(* Making a class.                                                         *)

LEMMA ClassNewInv ==
    ASSUME ClassInv, NEW c \in Classes, NEW p \in Classes \cup {None}, ClassNew(c, p)
    PROVE  ClassInv'
<1>1. /\ c \notin made /\ made' = made \cup {c} /\ UNCHANGED typeVars
      /\ p # None => p \in made
  BY EobjAssumption DEF ClassNew
<1>2. ClassTypeOK /\ Linked /\ CodesAreInherited /\ CodesAreCurrent /\ ListsForAllSignals
  BY DEF ClassInv
<1>3. /\ chain \in [Classes -> Seq(Classes)] /\ signals \in [Classes -> Seq(Signals)]
      /\ code \in [Signals -> Int] /\ made \subseteq Classes
  BY <1>2 DEF ClassTypeOK
<1> DEFINE line == IF p = None THEN <<>> ELSE <<p>> \o chain[p]
           all == Inherited(p) \o Own[c]
<1>4. /\ line \in Seq(Classes)
      /\ Elements(line) \subseteq IF p = None THEN {} ELSE {p} \cup Elements(chain[p])
  <2>1. CASE p = None
    BY <2>1 DEF Elements
  <2>2. CASE p # None
    <3>1. chain[p] \in Seq(Classes)
      BY <2>2, <1>3
    <3> QED BY <2>2, <3>1, ElementsOfLonger
  <2> QED BY <2>1, <2>2
<1>5. /\ Inherited(p) \in Seq(Signals) /\ Own[c] \in Seq(Signals)
      /\ all \in Seq(Signals)
      /\ \A i \in DOMAIN Inherited(p) : i \in DOMAIN all /\ all[i] = Inherited(p)[i]
  <2>1. Inherited(p) \in Seq(Signals)
    BY <1>3 DEF Inherited
  <2>2. Own[c] \in Seq(Signals)
    BY EobjAssumption
  <2> QED BY <2>1, <2>2, ConcatKeeps
<1>6. /\ chain' = [chain EXCEPT ![c] = line]
      /\ signals' = [signals EXCEPT ![c] = all]
      /\ code' = Described(c, p)
  BY DEF ClassNew
<1> HIDE DEF line, all
<1>7. /\ chain'[c] = line /\ signals'[c] = all
      /\ \A d \in Classes \ {c} : chain'[d] = chain[d] /\ signals'[d] = signals[d]
  BY <1>3, <1>6
<1>8. ClassTypeOK'
  <2>1. code' \in [Signals -> Int]
    <3>1. \A s \in Elements(Own[c]) : Described(c, p)[s] \in Int
      BY <1>2, DescribedFinds
    <3>2. \A s \in Signals : Described(c, p)[s] \in Int
      BY <3>1, <1>3 DEF Described
    <3> QED BY <3>2, <1>6 DEF Described
  <2>2. chain' \in [Classes -> Seq(Classes)] /\ signals' \in [Classes -> Seq(Signals)]
    BY <1>3, <1>4, <1>5, <1>6
  <2> QED BY <2>1, <2>2, <1>1, <1>2 DEF ClassTypeOK, typeVars
<1>9. Linked'
  <2>1. Elements(line) \subseteq made
    BY <1>1, <1>2, <1>4 DEF Linked
  <2>2. \A d \in made : Elements(chain'[d]) \subseteq made
    BY <1>1, <1>2, <1>3, <1>7 DEF Linked
  <2> QED BY <2>1, <2>2, <1>1, <1>7 DEF Linked
<1>10. CodesAreInherited'
  <2> SUFFICES ASSUME NEW d \in made', NEW q \in Elements(chain'[d]) \cup {d},
                      NEW i \in DOMAIN signals'[q]
               PROVE  i \in DOMAIN signals'[d] /\ signals'[d][i] = signals'[q][i]
    BY DEF CodesAreInherited
  <2>1. CASE q = d
    BY <2>1
  <2>2. CASE d # c /\ q # d
    <3>1. d \in made /\ chain'[d] = chain[d] /\ signals'[d] = signals[d] /\ q \in Elements(chain[d])
      BY <2>2, <1>1, <1>3, <1>7
    <3>2. q \in made /\ q # c /\ signals'[q] = signals[q]
      BY <3>1, <1>1, <1>2, <1>3, <1>7 DEF Linked
    <3> QED BY <3>1, <3>2, <1>2 DEF CodesAreInherited
  <2>3. CASE d = c /\ q # d
    <3>1. p # None /\ p \in made /\ q \in {p} \cup Elements(chain[p])
      BY <2>3, <1>1, <1>4, <1>7
    <3>2. q \in made /\ q # c /\ signals'[q] = signals[q]
      BY <3>1, <1>1, <1>2, <1>3, <1>7 DEF Linked
    <3>3. i \in DOMAIN signals[p] /\ signals[p][i] = signals[q][i]
      BY <3>1, <3>2, <1>2 DEF CodesAreInherited
    <3>4. Inherited(p) = signals[p]
      BY <3>1 DEF Inherited
    <3> QED BY <2>3, <3>2, <3>3, <3>4, <1>5, <1>7
  <2> QED BY <2>1, <2>2, <2>3
<1>11. CodesAreCurrent'
  <2> SUFFICES ASSUME NEW d \in made', NEW s \in Elements(Own[d])
               PROVE  /\ code'[s] + 1 \in DOMAIN signals'[d]
                      /\ signals'[d][code'[s] + 1] = s
    BY DEF CodesAreCurrent
  <2>1. CASE d = c
    BY <2>1, <1>2, <1>6, <1>7, DescribedFinds DEF all
  <2>2. CASE d # c
    <3>1. d \in made /\ signals'[d] = signals[d] /\ d \in Classes
      BY <2>2, <1>1, <1>3, <1>7
    <3>2. s \in Signals /\ s \notin Elements(Own[c])
      <4>1. Own[d] \in Seq(Signals) /\ Elements(Own[c]) \cap Elements(Own[d]) = {}
        BY <2>2, <3>1, EobjAssumption
      <4>2. Elements(Own[d]) \subseteq Signals
        BY <4>1, ElementsInSet
      <4> QED BY <4>1, <4>2
    <3>3. code'[s] = code[s]
      BY <3>2, <1>6 DEF Described
    <3> QED BY <3>1, <3>3, <1>2 DEF CodesAreCurrent
  <2> QED BY <2>1, <2>2
<1>12. ListsForAllSignals'
  <2> SUFFICES ASSUME NEW o \in Allocated'
               PROVE  type'[o] \in made' /\ slots'[o] = Len(signals'[type'[o]])
    BY DEF ListsForAllSignals
  <2>1. o \in Allocated /\ type'[o] = type[o] /\ slots'[o] = slots[o]
    BY <1>1 DEF typeVars, Allocated
  <2>2. type[o] \in made /\ slots[o] = Len(signals[type[o]])
    BY <2>1, <1>2 DEF ListsForAllSignals
  <2>3. signals'[type[o]] = signals[type[o]]
    BY <2>2, <1>1, <1>3, <1>7
  <2> QED BY <2>1, <2>2, <2>3, <1>1
<1> QED BY <1>8, <1>9, <1>10, <1>11, <1>12 DEF ClassInv

-----------------------------------------------------------------------------
(* The other steps.                                                        *)

LEMMA ClassDeleteInv ==
    ASSUME ClassInv, NEW c \in Classes, ClassDelete(c)
    PROVE  ClassInv'
<1>1. /\ made' = made \ {c} /\ UNCHANGED <<chain, signals, code, type, slots>>
      /\ Unused(c)
  BY DEF ClassDelete, typeVars
<1>2. ClassTypeOK'
  BY <1>1 DEF ClassInv, ClassTypeOK
<1>3. Linked'
  BY <1>1 DEF ClassInv, Linked, Unused
<1>4. CodesAreInherited' /\ CodesAreCurrent'
  BY <1>1 DEF ClassInv, CodesAreInherited, CodesAreCurrent
<1>5. ListsForAllSignals'
  BY <1>1 DEF ClassInv, ListsForAllSignals, Unused, InheritsFrom, Allocated
<1> QED BY <1>2, <1>3, <1>4, <1>5 DEF ClassInv

LEMMA SignalNewInv ==
    ASSUME ClassInv, NEW c \in Classes, NEW s \in Signals, SignalNew(c, s), ~Late
    PROVE  ClassInv'
<1>1. /\ c \in made /\ Unused(c) /\ \A d \in Classes : s \notin Elements(Own[d])
      /\ signals' = [signals EXCEPT ![c] = Append(@, s)]
      /\ code' = [code EXCEPT ![s] = Len(signals[c])]
      /\ UNCHANGED <<made, chain, type, slots>>
  BY DEF SignalNew, typeVars
<1>2. ClassTypeOK /\ Linked /\ CodesAreInherited /\ CodesAreCurrent /\ ListsForAllSignals
  BY DEF ClassInv
<1>3. /\ signals \in [Classes -> Seq(Signals)] /\ code \in [Signals -> Int]
      /\ made \subseteq Classes
  BY <1>2 DEF ClassTypeOK
<1>4. /\ Append(signals[c], s) \in Seq(Signals)
      /\ \A i \in DOMAIN signals[c] : i \in DOMAIN Append(signals[c], s)
                                     /\ Append(signals[c], s)[i] = signals[c][i]
  <2> DEFINE old == signals[c]
  <2>1. old \in Seq(Signals)
    BY <1>3
  <2> HIDE DEF old
  <2>2. /\ Append(old, s) \in Seq(Signals) /\ Len(Append(old, s)) = Len(old) + 1
        /\ \A i \in 1..Len(old) : Append(old, s)[i] = old[i]
    BY <2>1, AppendProperties
  <2>3. \A i \in DOMAIN old : i \in DOMAIN Append(old, s) /\ Append(old, s)[i] = old[i]
    BY <2>1, <2>2
  <2> QED BY <2>2, <2>3 DEF old
<1>5. /\ signals'[c] = Append(signals[c], s)
      /\ \A d \in Classes \ {c} : signals'[d] = signals[d]
  BY <1>1, <1>3
<1>6. ClassTypeOK'
  <2>1. signals' \in [Classes -> Seq(Signals)]
    BY <1>1, <1>3, <1>4
  <2>2. Len(signals[c]) \in Int
    BY <1>3
  <2>3. code' \in [Signals -> Int]
    BY <1>1, <1>3, <2>2
  <2> QED BY <2>1, <2>3, <1>1, <1>2 DEF ClassTypeOK
<1>7. Linked'
  BY <1>1, <1>2 DEF Linked
<1>8. CodesAreInherited'
  <2> SUFFICES ASSUME NEW d \in made', NEW q \in Elements(chain'[d]) \cup {d},
                      NEW i \in DOMAIN signals'[q]
               PROVE  i \in DOMAIN signals'[d] /\ signals'[d][i] = signals'[q][i]
    BY DEF CodesAreInherited
  <2>1. CASE q = d
    BY <2>1
  <2>2. CASE q # d
    <3>1. d \in made /\ q \in Elements(chain[d])
      BY <2>2, <1>1
    <3>2. q # c /\ q \in made
      BY <3>1, <1>1, <1>2 DEF Unused, Linked
    <3>3. signals'[q] = signals[q]
      BY <3>2, <1>3, <1>5
    <3>4. i \in DOMAIN signals[d] /\ signals[d][i] = signals[q][i]
      BY <3>1, <3>3, <1>2 DEF CodesAreInherited
    <3>5. CASE d = c
      BY <3>3, <3>4, <3>5, <1>4, <1>5
    <3>6. CASE d # c
      <4>1. signals'[d] = signals[d]
        BY <3>1, <3>6, <1>3, <1>5
      <4> QED BY <4>1, <3>3, <3>4
    <3> QED BY <3>5, <3>6
  <2> QED BY <2>1, <2>2
<1>9. CodesAreCurrent'
  <2> SUFFICES ASSUME NEW d \in made', NEW r \in Elements(Own[d])
               PROVE  /\ code'[r] + 1 \in DOMAIN signals'[d]
                      /\ signals'[d][code'[r] + 1] = r
    BY DEF CodesAreCurrent
  <2>1. d \in made /\ d \in Classes /\ Own[d] \in Seq(Signals)
    BY <1>1, <1>3, EobjAssumption
  <2>2. r \in Signals /\ r # s
    BY <2>1, <1>1, ElementsInSet
  <2>3. code'[r] = code[r]
    BY <2>2, <1>1, <1>3
  <2>4. code[r] + 1 \in DOMAIN signals[d] /\ signals[d][code[r] + 1] = r
    BY <2>1, <1>2 DEF CodesAreCurrent
  <2>5. CASE d = c
    BY <2>3, <2>4, <2>5, <1>4, <1>5
  <2>6. CASE d # c
    BY <2>1, <2>3, <2>4, <2>6, <1>5
  <2> QED BY <2>5, <2>6
<1>10. ListsForAllSignals'
  <2> SUFFICES ASSUME NEW o \in Allocated'
               PROVE  type'[o] \in made' /\ slots'[o] = Len(signals'[type'[o]])
    BY DEF ListsForAllSignals
  <2>1. o \in Allocated
    BY <1>1 DEF Allocated
  <2>2. type[o] \in made /\ slots[o] = Len(signals[type[o]]) /\ type[o] # c
    BY <2>1, <1>1, <1>2 DEF ListsForAllSignals, Unused, InheritsFrom
  <2>3. signals'[type[o]] = signals[type[o]]
    BY <2>2, <1>3, <1>5
  <2> QED BY <2>2, <2>3, <1>1
<1> QED BY <1>6, <1>7, <1>8, <1>9, <1>10 DEF ClassInv

\* Making or freeing an object.
LEMMA ObjectInv ==
    ASSUME ClassInv, UNCHANGED classVars, NEW o \in Objects,
           Deallocate(o) \/ \E c \in Classes : Construct(o, c)
    PROVE  ClassInv'
<1>1. UNCHANGED <<made, chain, signals, code>>
  BY DEF classVars
<1>2. ClassTypeOK /\ Linked /\ CodesAreInherited /\ CodesAreCurrent /\ ListsForAllSignals
  BY DEF ClassInv
<1>3. Linked' /\ CodesAreInherited' /\ CodesAreCurrent'
  BY <1>1, <1>2 DEF Linked, CodesAreInherited, CodesAreCurrent
<1>4. CASE Deallocate(o)
  <2>1. ClassTypeOK'
    BY <1>1, <1>2, <1>4 DEF ClassTypeOK, Deallocate
  <2>2. ListsForAllSignals'
    BY <1>1, <1>2, <1>4 DEF ClassTypeOK, ListsForAllSignals, Deallocate, Allocated
  <2> QED BY <2>1, <2>2, <1>3 DEF ClassInv
<1>5. ASSUME NEW c \in Classes, Construct(o, c)
      PROVE  ClassInv'
  <2>1. Len(signals[c]) \in Nat
    <3>1. signals[c] \in Seq(Signals)
      BY <1>2 DEF ClassTypeOK
    <3> QED BY <3>1
  <2>2. ClassTypeOK'
    BY <1>1, <1>2, <1>5, <2>1 DEF ClassTypeOK, Construct, Lists
  <2>3. ListsForAllSignals'
    BY <1>1, <1>2, <1>5 DEF ClassTypeOK, ListsForAllSignals, Construct, Lists, Allocated
  <2> QED BY <2>2, <2>3, <1>3 DEF ClassInv
<1> QED BY <1>4, <1>5

LEMMA SameClasses ==
    ASSUME ClassInv, UNCHANGED <<classVars, typeVars>>
    PROVE  ClassInv'
BY DEF ClassInv, classVars, typeVars, ClassTypeOK, Linked, CodesAreInherited,
       CodesAreCurrent, ListsForAllSignals, Allocated

LEMMA ClassInvNext ==
    ASSUME ClassInv, [Next]_vars, ~Late
    PROVE  ClassInv'
<1>1. CASE UNCHANGED vars
  BY <1>1, SameClasses DEF vars
<1>2. ASSUME NEW c \in Classes, NEW p \in Classes \cup {None}, ClassNew(c, p)
      PROVE  ClassInv'
  BY <1>2, ClassNewInv
<1>3. ASSUME NEW c \in Classes, ClassDelete(c)
      PROVE  ClassInv'
  BY <1>3, ClassDeleteInv
<1>4. ASSUME NEW c \in Classes, NEW s \in Signals, SignalNew(c, s)
      PROVE  ClassInv'
  BY <1>4, SignalNewInv
<1>5. ASSUME NEW c \in Classes, NEW p \in Props, PropertyAdd(c, p)
      PROVE  ClassInv'
  BY <1>5, SameClasses DEF PropertyAdd
<1>6. ASSUME NEW o \in Objects, NEW c \in Classes, ObjectNew(o, c)
      PROVE  ClassInv'
  BY <1>6, ObjectInv DEF ObjectNew
<1>7. ASSUME NEW o \in Objects, ObjectFree(o)
      PROVE  ClassInv'
  BY <1>7, ObjectInv DEF ObjectFree
<1>8. ASSUME NEW o \in Objects, NEW p \in Props, PropertyReset(o, p)
      PROVE  ClassInv'
  BY <1>8, SameClasses DEF PropertyReset
<1>9. ASSUME NEW o \in Objects, NEW p \in Props, NEW v \in Values[PropType[p]],
             PropertiesSet(o, p, v)
      PROVE  ClassInv'
  BY <1>9, SameClasses DEF PropertiesSet
<1>10. ASSUME NEW o \in Objects, NEW p \in Props, NEW q \in Props, PropertiesGet(o, p, q)
       PROVE  ClassInv'
  BY <1>10, SameClasses DEF PropertiesGet
<1> QED BY <1>1, <1>2, <1>3, <1>4, <1>5, <1>6, <1>7, <1>8, <1>9, <1>10 DEF Next

LEMMA ClassInvariant ==
    ASSUME ~Late
    PROVE  Spec => []ClassInv
<1>1. PropertyInit => ClassInv
  BY ClassInitInv DEF PropertyInit
<1>2. ClassInv /\ [Next]_vars => ClassInv'
  BY ClassInvNext
<1> QED BY <1>1, <1>2, PTL DEF Spec

\* For any number of classes, signals and objects, chains of classes, signals,
\* codes and the lists of objects have their types.
THEOREM ClassTypeCorrect ==
    ASSUME ~Late
    PROVE  Spec => []ClassTypeOK
<1>1. ClassInv => ClassTypeOK
  BY DEF ClassInv
<1> QED BY <1>1, ClassInvariant, PTL

\* For any number of classes, signals and objects, an application that extends a
\* class only while nothing was made from it has codes that mean the same signal
\* in a class and in every class made from it.
THEOREM CodesInherited ==
    ASSUME ~Late
    PROVE  Spec => []CodesAreInherited
<1>1. ClassInv => CodesAreInherited
  BY DEF ClassInv
<1> QED BY <1>1, ClassInvariant, PTL

\* The same application finds every signal at the code it keeps for it.
THEOREM CodesCurrent ==
    ASSUME ~Late
    PROVE  Spec => []CodesAreCurrent
<1>1. ClassInv => CodesAreCurrent
  BY DEF ClassInv
<1> QED BY <1>1, ClassInvariant, PTL

\* And each of its objects has a list of callbacks for every signal of its class.
THEOREM ListsSuffice ==
    ASSUME ~Late
    PROVE  Spec => []ListsForAllSignals
<1>1. ClassInv => ListsForAllSignals
  BY DEF ClassInv
<1> QED BY <1>1, ClassInvariant, PTL

-----------------------------------------------------------------------------
(* The properties of the objects: the class that keeps one does not change *)
(* while an object has it, and its field follows what was asked for.       *)

AnyValue == UNION {Values[PropType[p]] : p \in Props}

PropertyTypeOK ==
    /\ props \in [Classes -> SUBSET Props]
    /\ field \in [Objects -> [Classes \X Props -> AnyValue]]
    /\ asked \in [Objects -> [Props -> AnyValue]]

\* The field of the class that keeps a property of an object holds what was
\* last asked for.
Holds(o, p) ==
    Owner(type[o], p) # None => field[o][<<Owner(type[o], p), p>>] = asked[o][p]

FieldsHold == \A o \in Allocated, p \in Props : Holds(o, p)

PropertyInv == ClassInv /\ PropertyTypeOK /\ FieldsHold /\ ReadsWhatWasSet

LEMMA LineType ==
    ASSUME ClassTypeOK, NEW c \in Classes
    PROVE  /\ Line(c) \in Seq(Classes) /\ Line(c) # <<>>
           /\ Elements(Line(c)) \subseteq {c} \cup Elements(chain[c])
<1>1. chain[c] \in Seq(Classes)
  BY DEF ClassTypeOK
<1>2. Line(c) \in Seq(Classes) /\ Elements(Line(c)) \subseteq {c} \cup Elements(chain[c])
  BY <1>1, ElementsOfLonger DEF Line
<1>3. Len(Line(c)) = 1 + Len(chain[c]) /\ Len(chain[c]) \in Nat
  BY <1>1, ConcatProperties DEF Line
<1>. QED  BY <1>2, <1>3

\* The class that is found is of the line, and it has the property.
LEMMA OwnerFound ==
    ASSUME ClassTypeOK, NEW c \in Classes, NEW p, Owner(c, p) # None
    PROVE  /\ Owner(c, p) \in Elements(Line(c)) /\ Owner(c, p) \in Classes
           /\ p \in props[Owner(c, p)]
<1>. DEFINE at == {i \in DOMAIN Line(c) : p \in props[Line(c)[i]]}
<1>1. at # {} /\ Owner(c, p) = Line(c)[CHOOSE i \in at : \A j \in at : i <= j]
  BY DEF Owner
<1>2. Line(c) \in Seq(Classes)
  BY LineType
<1>3. at \subseteq Nat /\ at \subseteq DOMAIN Line(c)
  BY <1>2
<1>4. PICK i \in at : \A j \in at : i <= j
  <2>. HIDE DEF at
  <2>1. PICK x \in at : \A y \in at : ~(<<y, x>> \in OpToRel(<, Nat))
    BY <1>1, <1>3, NatLessThanWellFounded, WFMin, Zenon
  <2>2. \A y \in at : ~(y < x)
    BY <1>3, <2>1 DEF OpToRel
  <2>3. \A y \in at : x <= y
    BY <1>3, <2>2
  <2>. QED  BY <2>3
<1>. DEFINE k == CHOOSE j \in at : \A l \in at : j <= l
<1>5. k \in at
  <2>. HIDE DEF at
  <2>. QED  BY <1>4, Zenon
<1>6. Owner(c, p) = Line(c)[k]
  BY <1>1
<1>7. k \in DOMAIN Line(c) /\ p \in props[Line(c)[k]]
  BY <1>5
<1>. HIDE DEF k
<1>8. Line(c)[k] \in Classes
  BY <1>2, <1>7, ElementOfSeq
<1>. QED  BY <1>6, <1>7, <1>8 DEF Elements

\* Who keeps a property does not change while the line and what its classes
\* declare do not.
LEMMA OwnerKept ==
    ASSUME ClassTypeOK, NEW c \in Classes, NEW p, chain'[c] = chain[c],
           \A d \in Elements(Line(c)) : props'[d] = props[d]
    PROVE  Owner(c, p)' = Owner(c, p)
<1>1. Line(c)' = Line(c)
  BY DEF Line
<1>. DEFINE at == {i \in DOMAIN Line(c) : p \in props[Line(c)[i]]}
            at2 == {i \in DOMAIN Line(c) : p \in props'[Line(c)[i]]}
<1>2. \A i \in DOMAIN Line(c) : props'[Line(c)[i]] = props[Line(c)[i]]
  BY DEF Elements
<1>3. at2 = at
  BY <1>2
<1>4. Owner(c, p) = IF at = {} THEN None ELSE Line(c)[CHOOSE i \in at : \A j \in at : i <= j]
  BY DEF Owner
<1>5. Owner(c, p)' = IF at2 = {} THEN None ELSE Line(c)[CHOOSE i \in at2 : \A j \in at2 : i <= j]
  <2>. DEFINE l == Line(c)'
              at3 == {i \in DOMAIN l : p \in props'[l[i]]}
  <2>1. Owner(c, p)' = IF at3 = {} THEN None ELSE l[CHOOSE i \in at3 : \A j \in at3 : i <= j]
    BY DEF Owner
  <2>2. l = Line(c)
    BY <1>1
  <2>. HIDE DEF l
  <2>3. at3 = at2
    BY <2>2
  <2>. HIDE DEF at2, at3
  <2>. QED  BY <2>1, <2>2, <2>3
<1>. HIDE DEF at, at2
<1>. QED  BY <1>3, <1>4, <1>5

LEMMA OwnerSame ==
    ASSUME NEW o, NEW p, type'[o] = type[o], chain' = chain, props' = props
    PROVE  Owner(type[o], p)' = Owner(type[o], p)
BY DEF Owner, Line

\* What goes into a container comes out of it.
LEMMA ContainerHolds ==
    \A b, v : \A p \in Props :
        /\ ValueSet(b, PropType[p], v) = [type |-> PropType[p], v |-> v]
        /\ ValueGet(ValueSet(b, PropType[p], v), PropType[p]) = v
BY PropertyAssumption DEF ValueSet, ValueGet

LEMMA ValuesTyped ==
    /\ \A p \in Props : Zero(PropType[p]) \in AnyValue
    /\ \A c \in Classes, p \in Props : Default[c][p] \in AnyValue
    /\ AllZero \in [Classes \X Props -> AnyValue]
    /\ [p \in Props |-> Zero(PropType[p])] \in [Props -> AnyValue]
<1>1. \A p \in Props : Zero(PropType[p]) \in Values[PropType[p]]
  BY PropertyAssumption
<1>2. \A p \in Props : Zero(PropType[p]) \in AnyValue
  BY <1>1 DEF AnyValue
<1>3. \A c \in Classes, p \in Props : Default[c][p] \in AnyValue
  BY PropertyAssumption DEF AnyValue
<1>4. AllZero \in [Classes \X Props -> AnyValue]
  BY <1>2 DEF AllZero
<1>. QED  BY <1>2, <1>3, <1>4

\* The classes an object is of exist, and none of them is unused.
LEMMA LineOfObject ==
    ASSUME ClassInv, NEW o \in Allocated
    PROVE  /\ type[o] \in Classes /\ type[o] \in made
           /\ Elements(Line(type[o])) \subseteq made
           /\ \A c : Unused(c) => c \notin Elements(Line(type[o]))
<1>1. type[o] \in made /\ made \subseteq Classes /\ ClassTypeOK /\ Linked
  BY DEF ClassInv, ListsForAllSignals, ClassTypeOK
<1>2. Elements(Line(type[o])) \subseteq {type[o]} \cup Elements(chain[type[o]])
  BY <1>1, LineType
<1>3. Elements(chain[type[o]]) \subseteq made
  BY <1>1 DEF Linked
<1>4. \A c : Unused(c) => c # type[o] /\ c \notin Elements(chain[type[o]])
  BY DEF Unused, InheritsFrom
<1>. QED  BY <1>1, <1>2, <1>3, <1>4

\* A step that leaves the objects alone, and every line of theirs, leaves what
\* they hold.
LEMMA HoldsKept ==
    ASSUME ClassInv, FieldsHold, UNCHANGED <<typeVars, field, asked>>,
           \A o \in Allocated : /\ chain'[type[o]] = chain[type[o]]
                                /\ \A d \in Elements(Line(type[o])) : props'[d] = props[d]
    PROVE  FieldsHold'
<1>. SUFFICES ASSUME NEW o \in Allocated', NEW p \in Props PROVE Holds(o, p)'
  BY DEF FieldsHold
<1>1. o \in Allocated /\ type' = type /\ field' = field /\ asked' = asked
  BY DEF Allocated, typeVars
<1>2. type[o] \in Classes /\ ClassTypeOK
  BY <1>1, LineOfObject DEF ClassInv
<1>3. ASSUME NEW c \in Classes, type[o] = c PROVE Holds(o, p)'
  <2>1. Owner(c, p)' = Owner(c, p)
    BY <1>1, <1>2, <1>3, OwnerKept
  <2>2. Holds(o, p)
    BY <1>1 DEF FieldsHold
  <2>3. Owner(c, p) # None => field[o][<<Owner(c, p), p>>] = asked[o][p]
    BY <1>3, <2>2 DEF Holds
  <2>4. type'[o] = c
    BY <1>1, <1>3
  <2>5. Holds(o, p)' <=> (Owner(c, p)' # None => field'[o][<<Owner(c, p)', p>>] = asked'[o][p])
    BY <2>4 DEF Holds
  <2>. QED  BY <1>1, <2>1, <2>3, <2>5
<1>. QED  BY <1>2, <1>3

LEMMA PropertyInitInv == PropertyInit => PropertyInv
<1>. SUFFICES ASSUME PropertyInit PROVE PropertyInv
  OBVIOUS
<1>1. ClassInv
  BY ClassInitInv DEF PropertyInit
<1>2. PropertyTypeOK
  BY ValuesTyped DEF PropertyInit, PropertyTypeOK
<1>3. FieldsHold
  BY DEF FieldsHold, Allocated, PropertyInit, ClassInit
<1>4. ReadsWhatWasSet
  BY DEF ReadsWhatWasSet, PropertyInit
<1>. QED  BY <1>1, <1>2, <1>3, <1>4 DEF PropertyInv

\* Nothing is read.
LEMMA NothingRead == ASSUME got' = <<>> PROVE ReadsWhatWasSet'
BY DEF ReadsWhatWasSet

-----------------------------------------------------------------------------
(* The steps.                                                              *)

LEMMA DeclareHolds ==
    ASSUME PropertyInv, ~Late,
           \/ \E c \in Classes, p \in Classes \cup {None} : ClassNew(c, p) /\ Keeping
           \/ \E c \in Classes : /\ ClassDelete(c)
                                 /\ props' = [props EXCEPT ![c] = {}]
                                 /\ got' = <<>>
                                 /\ UNCHANGED <<field, asked>>
           \/ \E c \in Classes, s \in Signals : SignalNew(c, s) /\ Keeping
           \/ \E c \in Classes, p \in Props : PropertyAdd(c, p)
    PROVE  PropertyTypeOK' /\ FieldsHold' /\ ReadsWhatWasSet'
<1>1. /\ ClassInv /\ PropertyTypeOK /\ FieldsHold
      /\ props \in [Classes -> SUBSET Props] /\ chain \in [Classes -> Seq(Classes)]
  BY DEF PropertyInv, PropertyTypeOK, ClassInv, ClassTypeOK
<1>2. got' = <<>> /\ UNCHANGED <<typeVars, field, asked>>
  BY DEF ClassNew, ClassDelete, SignalNew, PropertyAdd, Keeping
<1>3. PICK c \in Classes :
        /\ c \notin made \/ Unused(c)
        /\ \A d \in Classes \ {c} : chain'[d] = chain[d] /\ props'[d] = props[d]
        /\ props' \in [Classes -> SUBSET Props]
  <2>1. ASSUME NEW c \in Classes, NEW p \in Classes \cup {None}, ClassNew(c, p), Keeping
        PROVE  /\ c \notin made
               /\ \A d \in Classes \ {c} : chain'[d] = chain[d] /\ props'[d] = props[d]
               /\ props' \in [Classes -> SUBSET Props]
    BY <1>1, <2>1 DEF ClassNew, Keeping
  <2>2. ASSUME NEW c \in Classes, ClassDelete(c), props' = [props EXCEPT ![c] = {}]
        PROVE  /\ Unused(c)
               /\ \A d \in Classes \ {c} : chain'[d] = chain[d] /\ props'[d] = props[d]
               /\ props' \in [Classes -> SUBSET Props]
    BY <1>1, <2>2 DEF ClassDelete
  <2>3. ASSUME NEW c \in Classes, NEW s \in Signals, SignalNew(c, s), Keeping
        PROVE  /\ Unused(c)
               /\ \A d \in Classes \ {c} : chain'[d] = chain[d] /\ props'[d] = props[d]
               /\ props' \in [Classes -> SUBSET Props]
    BY <1>1, <2>3 DEF SignalNew, Keeping
  <2>4. ASSUME NEW c \in Classes, NEW p \in Props, PropertyAdd(c, p)
        PROVE  /\ Unused(c)
               /\ \A d \in Classes \ {c} : chain'[d] = chain[d] /\ props'[d] = props[d]
               /\ props' \in [Classes -> SUBSET Props]
    BY <1>1, <2>4 DEF PropertyAdd, classVars
  <2>. QED  BY <2>1, <2>2, <2>3, <2>4
<1>4. \A o \in Allocated : /\ chain'[type[o]] = chain[type[o]]
                           /\ \A d \in Elements(Line(type[o])) : props'[d] = props[d]
  <2>. SUFFICES ASSUME NEW o \in Allocated
                PROVE  /\ chain'[type[o]] = chain[type[o]]
                       /\ \A d \in Elements(Line(type[o])) : props'[d] = props[d]
    OBVIOUS
  <2>1. /\ type[o] \in made /\ Elements(Line(type[o])) \subseteq made
        /\ Unused(c) => c \notin Elements(Line(type[o]))
    BY <1>1, LineOfObject
  <2>2. Unused(c) => c # type[o]
    BY DEF Unused, InheritsFrom
  <2>3. made \subseteq Classes
    BY <1>1 DEF ClassInv, ClassTypeOK
  <2>. QED  BY <1>3, <2>1, <2>2, <2>3
<1>5. FieldsHold'
  BY <1>1, <1>2, <1>4, HoldsKept
<1>6. PropertyTypeOK'
  BY <1>1, <1>2, <1>3 DEF PropertyTypeOK
<1>. QED  BY <1>2, <1>5, <1>6, NothingRead

\* A step on one object that changes no class.
LEMMA OthersHold ==
    ASSUME PropertyInv, UNCHANGED <<classVars, props>>, NEW o \in Objects,
           \A x \in Objects \ {o} : /\ type'[x] = type[x] /\ field'[x] = field[x]
                                    /\ asked'[x] = asked[x],
           o \in Allocated' => \A p \in Props : Holds(o, p)'
    PROVE  FieldsHold'
<1>. SUFFICES ASSUME NEW x \in Allocated', NEW p \in Props, x # o PROVE Holds(x, p)'
  BY DEF FieldsHold
<1>1. /\ x \in Allocated /\ x \in Objects
      /\ type'[x] = type[x] /\ field'[x] = field[x] /\ asked'[x] = asked[x]
  BY DEF Allocated
<1>2. chain' = chain /\ props' = props /\ Holds(x, p)
  BY <1>1 DEF PropertyInv, FieldsHold, classVars
<1>3. Owner(type[x], p)' = Owner(type[x], p)
  BY <1>1, <1>2, OwnerSame
<1>. QED  BY <1>1, <1>2, <1>3 DEF Holds

LEMMA ObjectNewHolds ==
    ASSUME PropertyInv, NEW o \in Objects, NEW c \in Classes, ObjectNew(o, c)
    PROVE  PropertyTypeOK' /\ FieldsHold' /\ ReadsWhatWasSet'
<1>1. /\ ClassInv /\ ClassTypeOK /\ PropertyTypeOK
      /\ type \in [Objects -> Classes \cup {None}]
      /\ field \in [Objects -> [Classes \X Props -> AnyValue]]
      /\ asked \in [Objects -> [Props -> AnyValue]]
  BY DEF PropertyInv, ClassInv, ClassTypeOK, PropertyTypeOK
<1>. DEFINE f == [cp \in Classes \X Props |->
                     IF cp \in Defaults(c)
                     THEN ValueGet(ValueSet(Fresh, PropType[cp[2]], Default[cp[1]][cp[2]]),
                                   PropType[cp[2]])
                     ELSE AllZero[cp]]
            a == [p \in Props |-> IF p \in Constructed /\ Owner(c, p) # None
                                  THEN Default[Owner(c, p)][p] ELSE Zero(PropType[p])]
<1>2. /\ type' = [type EXCEPT ![o] = c]
      /\ field' = [field EXCEPT ![o] = f]
      /\ asked' = [asked EXCEPT ![o] = a]
      /\ got' = <<>>
      /\ UNCHANGED <<classVars, props>>
  BY DEF ObjectNew, Construct
<1>3. \A d \in Classes, p \in Props :
         f[<<d, p>>] = IF <<d, p>> \in Defaults(c) THEN Default[d][p] ELSE Zero(PropType[p])
  <2>. SUFFICES ASSUME NEW d \in Classes, NEW p \in Props
                PROVE  f[<<d, p>>] = IF <<d, p>> \in Defaults(c) THEN Default[d][p]
                                     ELSE Zero(PropType[p])
    OBVIOUS
  <2>1. <<d, p>> \in Classes \X Props /\ <<d, p>>[1] = d /\ <<d, p>>[2] = p
    OBVIOUS
  <2>2. ValueGet(ValueSet(Fresh, PropType[p], Default[d][p]), PropType[p]) = Default[d][p]
    BY ContainerHolds
  <2>3. AllZero[<<d, p>>] = Zero(PropType[p])
    BY <2>1 DEF AllZero
  <2>. QED  BY <2>1, <2>2, <2>3
<1>4. \A p \in Props : Owner(c, p) # None => Owner(c, p) \in Classes
  BY <1>1, OwnerFound
<1>5. f \in [Classes \X Props -> AnyValue] /\ a \in [Props -> AnyValue]
  <2>1. \A cp \in Classes \X Props : f[cp] \in AnyValue
    <3>. HIDE DEF f
    <3>1. \A d \in Classes, p \in Props : f[<<d, p>>] \in AnyValue
      BY <1>3, ValuesTyped
    <3>2. \A cp \in Classes \X Props : cp = <<cp[1], cp[2]>> /\ cp[1] \in Classes /\ cp[2] \in Props
      OBVIOUS
    <3>. QED  BY <3>1, <3>2
  <2>2. f = [cp \in Classes \X Props |-> f[cp]]
    OBVIOUS
  <2>3. a \in [Props -> AnyValue]
    BY <1>4, ValuesTyped
  <2>. HIDE DEF f
  <2>. QED  BY <2>1, <2>2, <2>3
<1>6. \A p \in Props : Owner(c, p) # None => f[<<Owner(c, p), p>>] = a[p]
  <2>. SUFFICES ASSUME NEW p \in Props, Owner(c, p) # None
                PROVE  f[<<Owner(c, p), p>>] = a[p]
    OBVIOUS
  <2>. DEFINE d == Owner(c, p)
  <2>1. d \in Classes /\ d \in Elements(Line(c)) /\ p \in props[d]
    BY <1>1, OwnerFound
  <2>2. a[p] = IF p \in Constructed THEN Default[d][p] ELSE Zero(PropType[p])
    OBVIOUS
  <2>. HIDE DEF d, f
  <2>3. <<d, p>> \in Defaults(c) <=> p \in Constructed
    BY <2>1 DEF Defaults
  <2>4. f[<<d, p>>] = a[p]
    BY <1>3, <2>1, <2>2, <2>3
  <2>. QED  BY <2>4 DEF d
<1>. HIDE DEF f, a
<1>7. PropertyTypeOK'
  BY <1>1, <1>2, <1>5 DEF PropertyTypeOK
<1>8. /\ type'[o] = c /\ field'[o] = f /\ asked'[o] = a
      /\ \A x \in Objects \ {o} : /\ type'[x] = type[x] /\ field'[x] = field[x]
                                  /\ asked'[x] = asked[x]
  BY <1>1, <1>2
<1>9. \A p \in Props : Holds(o, p)'
  <2>. SUFFICES ASSUME NEW p \in Props PROVE Holds(o, p)'
    OBVIOUS
  <2>1. Owner(c, p)' = Owner(c, p)
    BY <1>2 DEF Owner, Line, classVars
  <2>2. Holds(o, p)' <=> (Owner(c, p)' # None => field'[o][<<Owner(c, p)', p>>] = asked'[o][p])
    BY <1>8 DEF Holds
  <2>. QED  BY <1>6, <1>8, <2>1, <2>2
<1>10. FieldsHold'
  BY <1>2, <1>8, <1>9, OthersHold
<1>. QED  BY <1>2, <1>7, <1>10, NothingRead

LEMMA ObjectFreeHolds ==
    ASSUME PropertyInv, NEW o \in Objects, ObjectFree(o)
    PROVE  PropertyTypeOK' /\ FieldsHold' /\ ReadsWhatWasSet'
<1>1. /\ PropertyTypeOK
      /\ type \in [Objects -> Classes \cup {None}]
      /\ field \in [Objects -> [Classes \X Props -> AnyValue]]
      /\ asked \in [Objects -> [Props -> AnyValue]]
  BY DEF PropertyInv, ClassInv, ClassTypeOK, PropertyTypeOK
<1>2. /\ type' = [type EXCEPT ![o] = None]
      /\ field' = [field EXCEPT ![o] = AllZero]
      /\ asked' = [asked EXCEPT ![o] = [p \in Props |-> Zero(PropType[p])]]
      /\ got' = <<>>
      /\ UNCHANGED <<classVars, props>>
  BY DEF ObjectFree, Deallocate
<1>3. PropertyTypeOK'
  BY <1>1, <1>2, ValuesTyped DEF PropertyTypeOK
<1>4. /\ o \notin Allocated'
      /\ \A x \in Objects \ {o} : /\ type'[x] = type[x] /\ field'[x] = field[x]
                                  /\ asked'[x] = asked[x]
  BY <1>1, <1>2 DEF Allocated
<1>5. FieldsHold'
  BY <1>2, <1>4, OthersHold
<1>. QED  BY <1>2, <1>3, <1>5, NothingRead

\* A setter, called with a value or with the default.
LEMMA SetHolds ==
    ASSUME PropertyInv, NEW o \in Allocated, NEW p \in Props, NEW v \in AnyValue,
           NEW c, c = Owner(type[o], p), c # None,
           field' = Setter(o, c, p, ValueSet(Fresh, PropType[p], v)),
           asked' = [asked EXCEPT ![o][p] = v],
           UNCHANGED <<classVars, typeVars, props>>
    PROVE  PropertyTypeOK' /\ FieldsHold'
<1>1. /\ ClassInv /\ ClassTypeOK /\ PropertyTypeOK /\ FieldsHold /\ o \in Objects
      /\ field \in [Objects -> [Classes \X Props -> AnyValue]]
      /\ asked \in [Objects -> [Props -> AnyValue]]
  BY DEF PropertyInv, ClassInv, PropertyTypeOK, Allocated
<1>2. field' = [field EXCEPT ![o][<<c, p>>] = v]
  BY ContainerHolds DEF Setter
<1>3. type[o] \in Classes
  BY <1>1, LineOfObject
<1>4. c \in Classes
  BY <1>1, <1>3, OwnerFound
<1>5. PropertyTypeOK'
  <2>1. <<c, p>> \in Classes \X Props
    BY <1>4
  <2>2. field' \in [Objects -> [Classes \X Props -> AnyValue]]
    <3>1. field[o] \in [Classes \X Props -> AnyValue]
      BY <1>1
    <3>2. [field[o] EXCEPT ![<<c, p>>] = v] \in [Classes \X Props -> AnyValue]
      BY <2>1, <3>1
    <3>3. field' = [field EXCEPT ![o] = [field[o] EXCEPT ![<<c, p>>] = v]]
      BY <1>1, <1>2
    <3>. QED  BY <1>1, <3>2, <3>3
  <2>3. asked' \in [Objects -> [Props -> AnyValue]]
    BY <1>1
  <2>. QED  BY <1>1, <2>2, <2>3 DEF PropertyTypeOK
<1>6. /\ type' = type
      /\ \A x \in Objects \ {o} : field'[x] = field[x] /\ asked'[x] = asked[x]
  BY <1>1, <1>2 DEF typeVars
<1>7. /\ field'[o][<<c, p>>] = v
      /\ asked'[o][p] = v
      /\ \A d \in Classes, q \in Props :
            q # p => field'[o][<<d, q>>] = field[o][<<d, q>>] /\ asked'[o][q] = asked[o][q]
  <2>1. <<c, p>> \in Classes \X Props
    BY <1>4
  <2>2. field'[o] = [field[o] EXCEPT ![<<c, p>>] = v] /\ asked'[o] = [asked[o] EXCEPT ![p] = v]
    BY <1>1, <1>2
  <2>3. field[o] \in [Classes \X Props -> AnyValue] /\ asked[o] \in [Props -> AnyValue]
    BY <1>1
  <2>. QED  BY <2>1, <2>2, <2>3
<1>8. \A q \in Props : Holds(o, q)'
  <2>. SUFFICES ASSUME NEW q \in Props PROVE Holds(o, q)'
    OBVIOUS
  <2>1. Owner(type[o], q)' = Owner(type[o], q)
    <3>1. type' = type /\ chain' = chain /\ props' = props
      BY <1>6 DEF classVars
    <3>. QED  BY <3>1, OwnerSame
  <2>2. Holds(o, q)
    BY <1>1 DEF FieldsHold
  <2>3. CASE q = p
    BY <1>7, <2>1, <2>3 DEF Holds
  <2>4. CASE q # p
    <3>1. Owner(type[o], q) # None => Owner(type[o], q) \in Classes
      BY <1>1, <1>3, OwnerFound
    <3>. QED  BY <1>7, <2>1, <2>2, <2>4, <3>1 DEF Holds
  <2>. QED  BY <2>3, <2>4
<1>9. FieldsHold'
  BY <1>1, <1>6, <1>8, OthersHold
<1>. QED  BY <1>5, <1>9

\* What a getter of the owner leaves at a location is as the property asks.
AsAsked(r) ==
    r.told => /\ ~r.freed => r.v = asked[r.o][r.p]
              /\ r.freed <=> PropType[r.p] = "STRING" /\ asked[r.o][r.p] # None

LEMMA LeftAsAsked ==
    ASSUME NEW o \in Objects, NEW p \in Props, NEW c, NEW b,
           field[o][<<c, p>>] = asked[o][p],
           Left(o, c, p, Getter(o, c, p, b)) # <<>>
    PROVE  \E r : Left(o, c, p, Getter(o, c, p, b)) = <<r>> /\ AsAsked(r)
<1>. DEFINE box == Getter(o, c, p, b)
            r == [o |-> o, p |-> p, v |-> ValueGet(box, box.type),
                  told |-> <<c, p>> \in Answers, freed |-> OwnsString(box)]
<1>1. Left(o, c, p, box) = <<r>>
  BY DEF Left
<1>2. ASSUME <<c, p>> \in Answers
      PROVE  box = [type |-> PropType[p], v |-> asked[o][p]]
  BY <1>2, ContainerHolds DEF Getter
<1>. HIDE DEF box
<1>3. /\ r.o = o /\ r.p = p /\ r.v = ValueGet(box, box.type)
      /\ r.told <=> <<c, p>> \in Answers
      /\ r.freed <=> OwnsString(box)
  OBVIOUS
<1>. HIDE DEF r
<1>4. AsAsked(r)
  <2>. SUFFICES ASSUME r.told
                PROVE  /\ ~r.freed => r.v = asked[o][p]
                       /\ r.freed <=> PropType[p] = "STRING" /\ asked[o][p] # None
    BY <1>3 DEF AsAsked
  <2>1. box.type = PropType[p] /\ box.v = asked[o][p]
    BY <1>2, <1>3
  <2>2. ValueGet(box, box.type) = asked[o][p]
    BY <2>1 DEF ValueGet
  <2>. QED  BY <1>3, <2>1, <2>2 DEF OwnsString
<1>. QED  BY <1>1, <1>4 DEF box

\* Of two that may be there or not, whichever is there is one of the two.
LEMMA OneOrTwo ==
    ASSUME NEW s, NEW t, NEW one, NEW two,
           s = <<>> \/ s = <<one>>, t = <<>> \/ t = <<two>>
    PROVE  \A i \in DOMAIN (s \o t) :
              \/ s = <<one>> /\ (s \o t)[i] = one
              \/ t = <<two>> /\ (s \o t)[i] = two
<1>1. CASE s = <<>> /\ t = <<>>
  BY <1>1
<1>2. CASE s = <<>> /\ t = <<two>>
  <2>1. <<>> \o <<two>> = <<two>>
    OBVIOUS
  <2>. QED  BY <1>2, <2>1
<1>3. CASE s = <<one>> /\ t = <<>>
  <2>1. <<one>> \o <<>> = <<one>>
    OBVIOUS
  <2>. QED  BY <1>3, <2>1
<1>4. CASE s = <<one>> /\ t = <<two>>
  <2>. DEFINE S == {one, two}
              u == <<one>> \o <<two>>
  <2>1. /\ <<one>> \in Seq(S) /\ <<two>> \in Seq(S)
        /\ Len(<<one>>) = 1 /\ Len(<<two>>) = 1 /\ <<one>>[1] = one /\ <<two>>[1] = two
    OBVIOUS
  <2>2. u \in Seq(S)
    BY <2>1, ConcatProperties
  <2>3. \A i \in DOMAIN u : u[i] \in S
    <3>. HIDE DEF u, S
    <3>. QED  BY <2>2
  <2>. QED  BY <1>4, <2>3
<1>. QED  BY <1>1, <1>2, <1>3, <1>4

LEMMA GetHolds ==
    ASSUME PropertyInv, NEW o \in Objects, NEW p \in Props, NEW q \in Props,
           PropertiesGet(o, p, q)
    PROVE  PropertyTypeOK' /\ FieldsHold' /\ ReadsWhatWasSet'
<1>. DEFINE c == Owner(type[o], p)
            d == Owner(type[o], q)
            first == Getter(o, c, p, Fresh)
            s == Left(o, c, p, first)
            t == IF d = None THEN <<>> ELSE Left(o, d, q, Getter(o, d, q, first))
<1>1. /\ o \in Allocated /\ c # None
      /\ got' = s \o t
      /\ UNCHANGED <<classVars, typeVars, props, field, asked>>
  BY DEF PropertiesGet
<1>2. ClassInv /\ PropertyTypeOK /\ FieldsHold
  BY DEF PropertyInv
<1>3. FieldsHold'
  BY <1>1, <1>2, HoldsKept DEF classVars
<1>4. PropertyTypeOK'
  BY <1>1, <1>2 DEF PropertyTypeOK
<1>5. /\ field[o][<<c, p>>] = asked[o][p]
      /\ d # None => field[o][<<d, q>>] = asked[o][q]
  BY <1>1, <1>2 DEF FieldsHold, Holds
<1>6. s = <<>> \/ \E r : s = <<r>> /\ AsAsked(r)
  <2>. HIDE DEF c
  <2>. QED  BY <1>5, LeftAsAsked
<1>7. t = <<>> \/ \E r : t = <<r>> /\ AsAsked(r)
  <2>. HIDE DEF d, first
  <2>. QED  BY <1>5, LeftAsAsked
<1>. HIDE DEF s, t
<1>8. PICK one : s = <<>> \/ (s = <<one>> /\ AsAsked(one))
  BY <1>6
<1>9. PICK two : t = <<>> \/ (t = <<two>> /\ AsAsked(two))
  BY <1>7
<1>10. \A i \in DOMAIN got' : AsAsked(got'[i])
  <2>1. <<one>> # <<>> /\ <<two>> # <<>>
    OBVIOUS
  <2>. QED  BY <1>1, <1>8, <1>9, <2>1, OneOrTwo
<1>11. ReadsWhatWasSet'
  BY <1>1, <1>10 DEF ReadsWhatWasSet, AsAsked
<1>. QED  BY <1>3, <1>4, <1>11

LEMMA PropertyInvNext ==
    ASSUME PropertyInv, [Next]_vars, ~Late
    PROVE  PropertyInv'
<1>1. ClassInv'
  BY ClassInvNext DEF PropertyInv
<1>. SUFFICES PropertyTypeOK' /\ FieldsHold' /\ ReadsWhatWasSet'
  BY <1>1 DEF PropertyInv
<1>2. CASE UNCHANGED vars
  <2>1. UNCHANGED <<classVars, typeVars, props, field, asked, got>>
    BY <1>2 DEF vars, propVars
  <2>2. FieldsHold'
    BY <2>1, HoldsKept DEF PropertyInv, classVars
  <2>. QED  BY <2>1, <2>2 DEF PropertyInv, PropertyTypeOK, ReadsWhatWasSet
<1>3. CASE \/ \E c \in Classes, p \in Classes \cup {None} : ClassNew(c, p) /\ Keeping
           \/ \E c \in Classes : /\ ClassDelete(c)
                                 /\ props' = [props EXCEPT ![c] = {}]
                                 /\ got' = <<>>
                                 /\ UNCHANGED <<field, asked>>
           \/ \E c \in Classes, s \in Signals : SignalNew(c, s) /\ Keeping
           \/ \E c \in Classes, p \in Props : PropertyAdd(c, p)
  BY <1>3, DeclareHolds
<1>4. ASSUME NEW o \in Objects, NEW c \in Classes, ObjectNew(o, c)
      PROVE  PropertyTypeOK' /\ FieldsHold' /\ ReadsWhatWasSet'
  BY <1>4, ObjectNewHolds
<1>5. ASSUME NEW o \in Objects, ObjectFree(o)
      PROVE  PropertyTypeOK' /\ FieldsHold' /\ ReadsWhatWasSet'
  BY <1>5, ObjectFreeHolds
<1>6. ASSUME NEW o \in Objects, NEW p \in Props, PropertyReset(o, p)
      PROVE  PropertyTypeOK' /\ FieldsHold' /\ ReadsWhatWasSet'
  <2>. DEFINE c == Owner(type[o], p)
              v == Default[c][p]
  <2>1. /\ o \in Allocated /\ c # None
        /\ field' = Setter(o, c, p, ValueSet(Fresh, PropType[p], v))
        /\ asked' = [asked EXCEPT ![o][p] = v]
        /\ got' = <<>>
        /\ UNCHANGED <<classVars, typeVars, props>>
    BY <1>6 DEF PropertyReset
  <2>2. v \in AnyValue
    <3>1. type[o] \in Classes /\ ClassTypeOK
      BY <2>1, LineOfObject DEF PropertyInv, ClassInv
    <3>2. c \in Classes
      BY <2>1, <3>1, OwnerFound
    <3>. QED  BY <3>2, ValuesTyped
  <2>. HIDE DEF v
  <2>. QED  BY <2>1, <2>2, SetHolds, NothingRead
<1>7. ASSUME NEW o \in Objects, NEW p \in Props, NEW v \in Values[PropType[p]],
             PropertiesSet(o, p, v)
      PROVE  PropertyTypeOK' /\ FieldsHold' /\ ReadsWhatWasSet'
  <2>. DEFINE c == Owner(type[o], p)
  <2>1. /\ o \in Allocated /\ c # None
        /\ field' = Setter(o, c, p, ValueSet(Fresh, PropType[p], v))
        /\ asked' = [asked EXCEPT ![o][p] = v]
        /\ got' = <<>>
        /\ UNCHANGED <<classVars, typeVars, props>>
    BY <1>7 DEF PropertiesSet
  <2>2. v \in AnyValue
    BY DEF AnyValue
  <2>. QED  BY <2>1, <2>2, SetHolds, NothingRead
<1>8. ASSUME NEW o \in Objects, NEW p \in Props, NEW q \in Props, PropertiesGet(o, p, q)
      PROVE  PropertyTypeOK' /\ FieldsHold' /\ ReadsWhatWasSet'
  BY <1>8, GetHolds
<1>. QED  BY <1>2, <1>3, <1>4, <1>5, <1>6, <1>7, <1>8 DEF Next

\* For any number of classes, properties and objects, an application that
\* extends a class only while nothing was made from it reads from an object what
\* was last asked for under that name, where the getter tells it, except for the
\* strings, which are freed when the call returns unless NULL: the class of the line
\* that keeps a property stays the same while the object lives, and a container
\* gives back what was put into it whatever it held before.
THEOREM ReadsAsSet ==
    ASSUME ~Late
    PROVE  Spec => []ReadsWhatWasSet
<1>1. PropertyInit => PropertyInv
  BY PropertyInitInv
<1>2. PropertyInv /\ [Next]_vars => PropertyInv'
  BY PropertyInvNext
<1>3. PropertyInv => ReadsWhatWasSet
  BY DEF PropertyInv
<1>. QED  BY <1>1, <1>2, <1>3, PTL DEF Spec
=============================================================================
