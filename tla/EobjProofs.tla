----------------------------- MODULE EobjProofs ------------------------------
(***************************************************************************)
(* Proofs about eobj with an application that keeps to the rules, for any  *)
(* number of objects, callbacks, names and weak pointers, and whatever     *)
(* depth of callbacks inside one another: SafeInv is inductive.            *)
(***************************************************************************)
EXTENDS Eobj, SequenceTheorems, TLAPS

-----------------------------------------------------------------------------
(* Sequences.                                                              *)

LEMMA Cons ==
    ASSUME NEW S, NEW f \in S, NEW s \in Seq(S)
    PROVE  /\ <<f>> \o s \in Seq(S)
           /\ Len(<<f>> \o s) = Len(s) + 1
           /\ DOMAIN (<<f>> \o s) = 1..Len(s) + 1
           /\ (<<f>> \o s)[1] = f
           /\ \A i \in DOMAIN s : (<<f>> \o s)[i + 1] = s[i]
           /\ \A i \in DOMAIN (<<f>> \o s) \ {1} :
                i - 1 \in DOMAIN s /\ (<<f>> \o s)[i] = s[i - 1]
           /\ Elements(<<f>> \o s) = {f} \cup Elements(s)
           /\ Tail(<<f>> \o s) = s
<1>. DEFINE t == <<f>> \o s
<1>1. <<f>> \in Seq(S) /\ Len(<<f>>) = 1 /\ <<f>>[1] = f
  OBVIOUS
<1>2. /\ t \in Seq(S) /\ Len(t) = 1 + Len(s)
      /\ t[1] = f
      /\ \A i \in 1 + 1..1 + Len(s) : t[i] = s[i - 1]
  BY <1>1, ConcatProperties
<1>3. DOMAIN t = 1..Len(s) + 1 /\ DOMAIN s = 1..Len(s) /\ Len(s) \in Nat
  BY <1>2, LenProperties
<1>. HIDE DEF t
<1>4. \A i \in DOMAIN s : t[i + 1] = s[i]
  BY <1>2, <1>3
<1>5. \A i \in DOMAIN t \ {1} : i - 1 \in DOMAIN s /\ t[i] = s[i - 1]
  BY <1>2, <1>3
<1>6. Elements(t) = {f} \cup Elements(s)
  <2>1. \A x \in Elements(t) : x = f \/ x \in Elements(s)
    BY <1>2, <1>5 DEF Elements
  <2>2. f \in Elements(t)
    <3>1. 1 \in DOMAIN t
      BY <1>3
    <3>. QED  BY <1>2, <3>1 DEF Elements
  <2>3. \A x \in Elements(s) : x \in Elements(t)
    <3>1. \A i \in DOMAIN s : i + 1 \in DOMAIN t
      BY <1>3
    <3>. QED  BY <1>4, <3>1 DEF Elements
  <2>. QED  BY <2>1, <2>2, <2>3
<1>7. Tail(t) = s
  <2>1. t # << >>
    BY <1>2, <1>3, EmptySeq
  <2>2. /\ Tail(t) \in Seq(S) /\ Len(Tail(t)) = Len(t) - 1
        /\ \A i \in 1..Len(Tail(t)) : Tail(t)[i] = t[i + 1]
    BY <1>2, <2>1, HeadTailProperties
  <2>3. Len(Tail(t)) = Len(s)
    BY <1>2, <1>3, <2>2
  <2>4. \A i \in 1..Len(Tail(t)) : Tail(t)[i] = s[i]
    BY <1>3, <1>4, <2>2, <2>3
  <2>. QED  BY <2>2, <2>3, <2>4, SeqEqual
<1>. QED  BY <1>2, <1>3, <1>4, <1>5, <1>6, <1>7 DEF t

LEMMA Uncons ==
    ASSUME NEW S, NEW s \in Seq(S), s # << >>
    PROVE  /\ s[1] \in S /\ Tail(s) \in Seq(S)
           /\ s = <<s[1]>> \o Tail(s)
           /\ Len(Tail(s)) = Len(s) - 1
           /\ DOMAIN Tail(s) = 1..Len(s) - 1
           /\ \A i \in DOMAIN Tail(s) : i + 1 \in DOMAIN s /\ Tail(s)[i] = s[i + 1]
           /\ s[1] \in Elements(s)
           /\ Elements(s) = {s[1]} \cup Elements(Tail(s))
<1>1. /\ Tail(s) \in Seq(S) /\ Len(Tail(s)) = Len(s) - 1
      /\ \A i \in 1..Len(Tail(s)) : Tail(s)[i] = s[i + 1]
  BY HeadTailProperties
<1>2. Len(s) \in Nat /\ Len(s) >= 1 /\ DOMAIN s = 1..Len(s)
  BY EmptySeq, LenProperties
<1>3. s[1] \in S
  BY <1>2, ElementOfSeq
<1>4. DOMAIN Tail(s) = 1..Len(s) - 1
  BY <1>1, LenProperties
<1>5. s = <<s[1]>> \o Tail(s)
  <2>1. /\ <<s[1]>> \o Tail(s) \in Seq(S)
        /\ Len(<<s[1]>> \o Tail(s)) = Len(Tail(s)) + 1
        /\ (<<s[1]>> \o Tail(s))[1] = s[1]
        /\ \A i \in DOMAIN Tail(s) : (<<s[1]>> \o Tail(s))[i + 1] = Tail(s)[i]
    BY <1>1, <1>3, Cons
  <2>2. Len(<<s[1]>> \o Tail(s)) = Len(s)
    BY <1>1, <1>2, <2>1
  <2>3. ASSUME NEW i \in 1..Len(s)
        PROVE  (<<s[1]>> \o Tail(s))[i] = s[i]
    <3>1. CASE i = 1
      BY <2>1, <3>1
    <3>2. CASE i # 1
      <4>1. i - 1 \in DOMAIN Tail(s) /\ (i - 1) + 1 = i
        BY <1>2, <1>4, <3>2
      <4>. QED  BY <1>1, <1>4, <2>1, <4>1
    <3>. QED  BY <3>1, <3>2
  <2>. QED  BY <2>1, <2>2, <2>3, SeqEqual
<1>6. Elements(s) = {s[1]} \cup Elements(Tail(s))
  <2>1. PICK f \in S, t \in Seq(S) : f = s[1] /\ t = Tail(s)
    BY <1>1, <1>3
  <2>2. Elements(<<f>> \o t) = {f} \cup Elements(t)
    BY Cons
  <2>. QED  BY <1>5, <2>1, <2>2
<1>7. \A i \in DOMAIN Tail(s) : i + 1 \in DOMAIN s
  BY <1>2, <1>4
<1>. QED  BY <1>1, <1>3, <1>4, <1>5, <1>6, <1>7

\* Two frames that are pushed together.
LEMMA FramesTwo ==
    ASSUME NEW f \in Frame, NEW g \in Frame, NEW s \in Seq(Frame)
    PROVE  /\ <<f, g>> \o s = <<f>> \o (<<g>> \o s)
           /\ (<<f>> \o <<g>>) \o s = <<f>> \o (<<g>> \o s)
           /\ (<< >> \o <<g>>) \o s = <<g>> \o s
<1>. DEFINE S == Frame
<1>1. f \in S /\ g \in S /\ s \in Seq(S)
  OBVIOUS
<1>. HIDE DEF S
<1>2. <<f>> \in Seq(S) /\ <<g>> \in Seq(S) /\ Len(<<g>>) = 1 /\ DOMAIN <<g>> = {1}
  BY <1>1
<1>3. <<f, g>> = <<f>> \o <<g>>
  <2>1. /\ <<f>> \o <<g>> \in Seq(S) /\ Len(<<f>> \o <<g>>) = 2
        /\ (<<f>> \o <<g>>)[1] = f /\ (<<f>> \o <<g>>)[2] = g
    BY <1>1, <1>2, Cons
  <2>2. <<f, g>> \in Seq(S) /\ Len(<<f, g>>) = 2
    BY <1>1
  <2>3. \A i \in 1..2 : <<f, g>>[i] = (<<f>> \o <<g>>)[i]
    BY <2>1
  <2>. QED  BY <2>1, <2>2, <2>3, SeqEqual
<1>4. << >> \o <<g>> = <<g>>
  BY <1>2, ConcatEmptySeq
<1>. QED  BY <1>1, <1>2, <1>3, <1>4, ConcatAssociative

LEMMA NothingFirst ==
    ASSUME NEW S, NEW s \in Seq(S)
    PROVE  << >> \o s = s
BY ConcatEmptySeq

LEMMA Alone ==
    ASSUME NEW S, NEW x \in S, NEW s, s = <<x>> \o << >>
    PROVE  s \in Seq(S) /\ Len(s) = 1 /\ Elements(s) = {x}
<1>1. PICK none : none = << >>
  OBVIOUS
<1>2. Len(none) = 0 /\ Elements(none) = {}
  BY <1>1 DEF Elements
<1>3. none \in Seq(S)
  BY <1>1
<1>4. /\ <<x>> \o none \in Seq(S) /\ Len(<<x>> \o none) = Len(none) + 1
      /\ Elements(<<x>> \o none) = {x} \cup Elements(none)
  BY <1>3, Cons
<1>. QED  BY <1>1, <1>2, <1>4

LEMMA FirstIn ==
    ASSUME NEW S, NEW s \in Seq(S), s # << >>
    PROVE  1 \in DOMAIN s
<1>1. DOMAIN s = 1..Len(s) /\ Len(s) \in Nat /\ Len(s) # 0
  BY EmptySeq, LenProperties
<1>. QED  BY <1>1

-----------------------------------------------------------------------------
(* Frames and the stack.                                                   *)

LEMMA FrameKinds ==
    ASSUME NEW f \in Frame
    PROVE  /\ f.k \in {"user", "emit", "naming", "notify", "destroy", "free", "purge", "shutdown"}
           /\ f.k = "user" => f \in [k : {"user"}, o : Objects,
                                     why : {"signal", "handler", "name", "destructor"}]
           /\ f.k = "emit" => f \in [k : {"emit"}, o : Objects, s : Signals, ptr : BOOLEAN,
                                     reg : BOOLEAN, late : BOOLEAN,
                                     next : Nodes \cup {Nil, Unread}, keep : BOOLEAN]
           /\ f.k = "naming" => f \in [k : {"naming"}, o : Objects, n : Names]
           /\ f.k = "notify" => f \in [k : {"notify"}, o : Objects, at : Nat]
           /\ f.k = "destroy" => f \in [k : {"destroy"}, o : Objects]
           /\ f.k = "free" => f \in [k : {"free"}, o : Objects, at : Nat]
           /\ f.k = "purge" => f \in [k : {"purge"}, next : Objects \cup {None}]
           /\ f.k \notin Loops => f.o \in Objects
BY DEF Frame, Loops

Stacked(s) == s \in Seq(Frame) /\ Shape(s)

\* f may be pushed on s.
Fits(f, s) ==
    /\ f.k \in Loops => s = << >>
    /\ f.k = "free" => /\ Len(s) = 1 /\ s[1].k \in Loops
                       /\ s[1].k = "purge" => s[1].next # f.o
    /\ s # << >> => /\ s[1].k \in Pending => f.k = "notify"
                    /\ s[1].k = "notify" => f.k = "user" /\ f.why = "name"
    /\ f.k \in Pending => \A x \in Elements(s) : x.k \notin Pending
    /\ f.k = "emit" /\ f.s = Destroyed =>
         \A x \in Elements(s) : x.k = "free" /\ x.at > 0 => x.o # f.o

LEMMA Push ==
    ASSUME NEW s, Stacked(s), NEW f \in Frame, Fits(f, s)
    PROVE  /\ Stacked(<<f>> \o s)
           /\ Elements(<<f>> \o s) = {f} \cup Elements(s)
<1>. DEFINE t == <<f>> \o s
<1>1. s \in Seq(Frame) /\ Shape(s)
  BY DEF Stacked
<1>2. /\ t \in Seq(Frame) /\ Len(t) = Len(s) + 1 /\ DOMAIN t = 1..Len(s) + 1
      /\ t[1] = f
      /\ \A i \in DOMAIN t \ {1} : i - 1 \in DOMAIN s /\ t[i] = s[i - 1]
      /\ Elements(t) = {f} \cup Elements(s)
  BY <1>1, Cons
<1>3. /\ DOMAIN s = 1..Len(s) /\ Len(s) \in Nat
      /\ s # << >> <=> Len(s) > 0
  BY <1>1, LenProperties, EmptySeq
<1>4. \A i \in DOMAIN t : i \in 1..Len(s) + 1 /\ (i # 1 => i - 1 \in 1..Len(s))
  BY <1>2, <1>3
<1>5. \A i \in DOMAIN s : s[i] \in Elements(s)
  BY DEF Elements
<1>. HIDE DEF t
<1>6. \A i \in DOMAIN t : t[i].k \in Loops => i = Len(t)
  <2>. SUFFICES ASSUME NEW i \in DOMAIN t, t[i].k \in Loops PROVE i = Len(t)
    OBVIOUS
  <2>1. CASE i = 1
    BY <1>2, <1>3, <2>1 DEF Fits
  <2>2. CASE i # 1
    <3>1. i - 1 \in DOMAIN s /\ t[i] = s[i - 1]
      BY <1>2, <2>2
    <3>2. i - 1 = Len(s)
      BY <1>1, <3>1 DEF Shape
    <3>. QED  BY <1>2, <1>3, <1>4, <3>2
  <2>. QED  BY <2>1, <2>2
<1>7. \A i \in DOMAIN t : t[i].k = "free" =>
         /\ i + 1 = Len(t) /\ t[i + 1].k \in Loops
         /\ t[i + 1].k = "purge" => t[i + 1].next # t[i].o
  <2>. SUFFICES ASSUME NEW i \in DOMAIN t, t[i].k = "free"
                PROVE  /\ i + 1 = Len(t) /\ t[i + 1].k \in Loops
                       /\ t[i + 1].k = "purge" => t[i + 1].next # t[i].o
    OBVIOUS
  <2>1. CASE i = 1
    <3>1. Len(s) = 1 /\ t[2] = s[1]
      BY <1>2, <1>3, <2>1 DEF Fits
    <3>. QED  BY <1>2, <2>1, <3>1 DEF Fits
  <2>2. CASE i # 1
    <3>1. i - 1 \in DOMAIN s /\ t[i] = s[i - 1]
      BY <1>2, <2>2
    <3>2. /\ (i - 1) + 1 = Len(s) /\ s[(i - 1) + 1].k \in Loops
          /\ s[(i - 1) + 1].k = "purge" => s[(i - 1) + 1].next # s[i - 1].o
      BY <1>1, <3>1 DEF Shape
    <3>3. i = Len(s) /\ (i - 1) + 1 = i
      BY <1>4, <3>2
    <3>4. i + 1 \in DOMAIN t \ {1} /\ (i + 1) - 1 = i
      BY <1>2, <1>3, <1>4, <3>3
    <3>5. t[i + 1] = s[i]
      BY <1>2, <3>4
    <3>. QED  BY <1>2, <3>1, <3>2, <3>3, <3>5
  <2>. QED  BY <2>1, <2>2
<1>8. \A i \in DOMAIN t \ {1} :
         /\ t[i].k \in Pending => t[i - 1].k = "notify"
         /\ t[i].k = "notify" => t[i - 1].k = "user" /\ t[i - 1].why = "name"
  <2>. SUFFICES ASSUME NEW i \in DOMAIN t \ {1}
                PROVE  /\ t[i].k \in Pending => t[i - 1].k = "notify"
                       /\ t[i].k = "notify" => t[i - 1].k = "user" /\ t[i - 1].why = "name"
    OBVIOUS
  <2>1. i - 1 \in DOMAIN s /\ t[i] = s[i - 1] /\ s # << >>
    BY <1>2, <1>3, <1>4
  <2>2. CASE i = 2
    BY <1>2, <2>1, <2>2 DEF Fits
  <2>3. CASE i # 2
    <3>1. i - 1 \in DOMAIN t \ {1} /\ i - 1 \in DOMAIN s \ {1}
      BY <1>2, <1>3, <1>4, <2>1, <2>3
    <3>2. t[i - 1] = s[(i - 1) - 1]
      BY <1>2, <3>1
    <3>. QED  BY <1>1, <2>1, <3>1, <3>2 DEF Shape
  <2>. QED  BY <2>2, <2>3
<1>9. \A i, j \in DOMAIN t : t[i].k \in Pending /\ t[j].k \in Pending => i = j
  <2>1. ASSUME NEW i \in DOMAIN t, NEW j \in DOMAIN t, i # 1,
               t[i].k \in Pending, t[j].k \in Pending
        PROVE  i = j
    <3>1. i - 1 \in DOMAIN s /\ t[i] = s[i - 1] /\ s[i - 1] \in Elements(s)
      BY <1>2, <1>5, <2>1
    <3>2. j # 1
      BY <1>2, <2>1, <3>1 DEF Fits
    <3>3. j - 1 \in DOMAIN s /\ t[j] = s[j - 1]
      BY <1>2, <3>2
    <3>4. i - 1 = j - 1
      BY <1>1, <2>1, <3>1, <3>3 DEF Shape
    <3>. QED  BY <1>4, <3>4
  <2>. QED  BY <2>1
<1>10. \A i, j \in DOMAIN t :
         t[i].k = "free" /\ t[i].at > 0 /\ t[j].k = "emit" /\ t[j].s = Destroyed =>
           t[i].o # t[j].o
  <2>. SUFFICES ASSUME NEW i \in DOMAIN t, NEW j \in DOMAIN t,
                       t[i].k = "free", t[i].at > 0, t[j].k = "emit", t[j].s = Destroyed
                PROVE  t[i].o # t[j].o
    OBVIOUS
  <2>1. CASE i = 1
    <3>1. Len(s) = 1 /\ s[1].k \in Loops
      BY <1>2, <2>1 DEF Fits
    <3>2. j - 1 = 1 /\ t[j] = s[1]
      BY <1>2, <1>3, <1>4, <2>1, <3>1
    <3>. QED  BY <3>1, <3>2 DEF Loops
  <2>2. CASE i # 1 /\ j = 1
    <3>1. i - 1 \in DOMAIN s /\ t[i] = s[i - 1] /\ s[i - 1] \in Elements(s)
      BY <1>2, <1>5, <2>2
    <3>. QED  BY <1>2, <2>2, <3>1 DEF Fits
  <2>3. CASE i # 1 /\ j # 1
    <3>1. i - 1 \in DOMAIN s /\ t[i] = s[i - 1] /\ j - 1 \in DOMAIN s /\ t[j] = s[j - 1]
      BY <1>2, <2>3
    <3>. QED  BY <1>1, <3>1 DEF Shape
  <2>. QED  BY <2>1, <2>2, <2>3
<1>11. Shape(t)
  BY <1>6, <1>7, <1>8, <1>9, <1>10 DEF Shape
<1>. QED  BY <1>2, <1>11 DEF Stacked, t

\* What is below the top is a stack on which the top fits.
LEMMA Pop ==
    ASSUME NEW s, Stacked(s), s # << >>
    PROVE  /\ s[1] \in Frame /\ s[1] \in Elements(s)
           /\ Stacked(Tail(s))
           /\ Fits(s[1], Tail(s))
           /\ Elements(s) = {s[1]} \cup Elements(Tail(s))
           /\ s = <<s[1]>> \o Tail(s)
<1>. DEFINE t == Tail(s)
<1>1. s \in Seq(Frame) /\ Shape(s)
  BY DEF Stacked
<1>2. /\ s[1] \in Frame /\ t \in Seq(Frame) /\ Len(t) = Len(s) - 1
      /\ DOMAIN t = 1..Len(s) - 1
      /\ \A i \in DOMAIN t : i + 1 \in DOMAIN s /\ t[i] = s[i + 1]
      /\ s[1] \in Elements(s)
      /\ Elements(s) = {s[1]} \cup Elements(t)
      /\ s = <<s[1]>> \o t
  BY <1>1, Uncons
<1>3. /\ DOMAIN s = 1..Len(s) /\ Len(s) \in Nat /\ Len(s) >= 1
      /\ t # << >> <=> Len(t) > 0
      /\ DOMAIN t = 1..Len(t) /\ Len(t) \in Nat
  <2>. HIDE DEF t
  <2>1. DOMAIN s = 1..Len(s) /\ Len(s) \in Nat
    BY <1>1, LenProperties
  <2>2. DOMAIN t = 1..Len(t) /\ Len(t) \in Nat
    BY <1>2, LenProperties
  <2>3. Len(s) >= 1
    BY <1>1, <2>1, EmptySeq
  <2>4. t # << >> <=> Len(t) > 0
    BY <1>2, <2>2, EmptySeq
  <2>. QED  BY <2>1, <2>2, <2>3, <2>4
<1>4. 1 \in DOMAIN s
  BY <1>3
<1>. HIDE DEF t
<1>5. \A i \in DOMAIN t : t[i] = s[i + 1] /\ i + 1 \in DOMAIN s /\ i + 1 # 1 /\ i \in Nat /\ i >= 1
  BY <1>2, <1>3
<1>6. Shape(t)
  <2>1. \A i \in DOMAIN t : t[i].k \in Loops => i = Len(t)
    <3>. SUFFICES ASSUME NEW i \in DOMAIN t, t[i].k \in Loops PROVE i = Len(t)
      OBVIOUS
    <3>1. i + 1 = Len(s)
      BY <1>1, <1>5 DEF Shape
    <3>. QED  BY <1>2, <1>3, <1>5, <3>1
  <2>2. \A i \in DOMAIN t : t[i].k = "free" =>
           /\ i + 1 = Len(t) /\ t[i + 1].k \in Loops
           /\ t[i + 1].k = "purge" => t[i + 1].next # t[i].o
    <3>. SUFFICES ASSUME NEW i \in DOMAIN t, t[i].k = "free"
                  PROVE  /\ i + 1 = Len(t) /\ t[i + 1].k \in Loops
                         /\ t[i + 1].k = "purge" => t[i + 1].next # t[i].o
      OBVIOUS
    <3>1. /\ (i + 1) + 1 = Len(s) /\ s[(i + 1) + 1].k \in Loops
          /\ s[(i + 1) + 1].k = "purge" => s[(i + 1) + 1].next # s[i + 1].o
      BY <1>1, <1>5 DEF Shape
    <3>2. i + 1 = Len(t) /\ i + 1 \in DOMAIN t
      BY <1>2, <1>3, <1>5, <3>1
    <3>. QED  BY <1>5, <3>1, <3>2
  <2>3. \A i \in DOMAIN t \ {1} :
           /\ t[i].k \in Pending => t[i - 1].k = "notify"
           /\ t[i].k = "notify" => t[i - 1].k = "user" /\ t[i - 1].why = "name"
    <3>. SUFFICES ASSUME NEW i \in DOMAIN t \ {1}
                  PROVE  /\ t[i].k \in Pending => t[i - 1].k = "notify"
                         /\ t[i].k = "notify" => t[i - 1].k = "user" /\ t[i - 1].why = "name"
      OBVIOUS
    <3>1. i - 1 \in DOMAIN t /\ (i + 1) - 1 = i /\ (i - 1) + 1 = i
      BY <1>3, <1>5
    <3>2. t[i - 1] = s[i] /\ t[i] = s[i + 1] /\ i + 1 \in DOMAIN s \ {1}
      BY <1>5, <3>1
    <3>3. /\ s[i + 1].k \in Pending => s[(i + 1) - 1].k = "notify"
          /\ s[i + 1].k = "notify" =>
               s[(i + 1) - 1].k = "user" /\ s[(i + 1) - 1].why = "name"
      BY <1>1, <3>2 DEF Shape
    <3>. QED  BY <3>1, <3>2, <3>3
  <2>4. \A i, j \in DOMAIN t : t[i].k \in Pending /\ t[j].k \in Pending => i = j
    <3>. SUFFICES ASSUME NEW i \in DOMAIN t, NEW j \in DOMAIN t,
                         t[i].k \in Pending, t[j].k \in Pending
                  PROVE  i = j
      OBVIOUS
    <3>1. i + 1 = j + 1
      BY <1>1, <1>5 DEF Shape
    <3>. QED  BY <1>5, <3>1
  <2>5. \A i, j \in DOMAIN t :
           t[i].k = "free" /\ t[i].at > 0 /\ t[j].k = "emit" /\ t[j].s = Destroyed =>
             t[i].o # t[j].o
    BY <1>1, <1>5 DEF Shape
  <2>. QED  BY <2>1, <2>2, <2>3, <2>4, <2>5 DEF Shape
<1>7. Fits(s[1], t)
  <2>1. s[1].k \in Loops => t = << >>
    BY <1>1, <1>2, <1>3, <1>4 DEF Shape
  <2>2. s[1].k = "free" => /\ Len(t) = 1 /\ t[1].k \in Loops
                           /\ t[1].k = "purge" => t[1].next # s[1].o
    <3>. SUFFICES ASSUME s[1].k = "free"
                  PROVE  /\ Len(t) = 1 /\ t[1].k \in Loops
                         /\ t[1].k = "purge" => t[1].next # s[1].o
      OBVIOUS
    <3>1. /\ 1 + 1 = Len(s) /\ s[1 + 1].k \in Loops
          /\ s[1 + 1].k = "purge" => s[1 + 1].next # s[1].o
      BY <1>1, <1>4 DEF Shape
    <3>2. Len(t) = 1 /\ 1 \in DOMAIN t
      <4>1. Len(s) = 2
        BY <3>1
      <4>2. Len(t) = 1
        BY <1>2, <4>1
      <4>3. DOMAIN t = 1..1
        BY <1>3, <4>2
      <4>. QED  BY <4>2, <4>3
    <3>. QED  BY <1>5, <3>1, <3>2
  <2>3. t # << >> => /\ t[1].k \in Pending => s[1].k = "notify"
                     /\ t[1].k = "notify" => s[1].k = "user" /\ s[1].why = "name"
    <3>. SUFFICES ASSUME t # << >>
                  PROVE  /\ t[1].k \in Pending => s[1].k = "notify"
                         /\ t[1].k = "notify" => s[1].k = "user" /\ s[1].why = "name"
      OBVIOUS
    <3>1. 1 \in DOMAIN t
      BY <1>3
    <3>2. t[1] = s[2] /\ 2 \in DOMAIN s \ {1}
      BY <1>5, <3>1
    <3>3. /\ s[2].k \in Pending => s[2 - 1].k = "notify"
          /\ s[2].k = "notify" => s[2 - 1].k = "user" /\ s[2 - 1].why = "name"
      BY <1>1, <3>2 DEF Shape
    <3>. QED  BY <3>2, <3>3
  <2>4. s[1].k \in Pending => \A x \in Elements(t) : x.k \notin Pending
    <3>. SUFFICES ASSUME s[1].k \in Pending, NEW x \in Elements(t), x.k \in Pending
                  PROVE  FALSE
      OBVIOUS
    <3>1. PICK i \in DOMAIN t : x = t[i]
      BY DEF Elements
    <3>. QED  BY <1>1, <1>4, <1>5, <3>1 DEF Shape
  <2>5. s[1].k = "emit" /\ s[1].s = Destroyed =>
          \A x \in Elements(t) : x.k = "free" /\ x.at > 0 => x.o # s[1].o
    <3>. SUFFICES ASSUME s[1].k = "emit", s[1].s = Destroyed, NEW x \in Elements(t),
                         x.k = "free", x.at > 0
                  PROVE  x.o # s[1].o
      OBVIOUS
    <3>1. PICK i \in DOMAIN t : x = t[i]
      BY DEF Elements
    <3>. QED  BY <1>1, <1>4, <1>5, <3>1 DEF Shape
  <2>. QED  BY <2>1, <2>2, <2>3, <2>4, <2>5 DEF Fits
<1>. QED  BY <1>2, <1>6, <1>7 DEF Stacked, t

\* Frames that Shape does not tell apart.
Alike(f, g) ==
    /\ g.k = f.k
    /\ f.k = "user" => g.why = f.why
    /\ f.k \notin Loops => g.o = f.o
    /\ f.k = "emit" => g.s = f.s
    /\ f.k = "free" => g.at = f.at
    /\ f.k = "purge" => g.next = f.next

LEMMA SameShape ==
    ASSUME NEW s, Stacked(s), NEW t \in Seq(Frame), Len(t) = Len(s),
           \A i \in DOMAIN s : Alike(s[i], t[i])
    PROVE  Stacked(t)
<1>1. s \in Seq(Frame) /\ Shape(s)
  BY DEF Stacked
<1>2. DOMAIN t = DOMAIN s
  BY <1>1, LenProperties
<1>3. /\ DOMAIN s = 1..Len(s) /\ Len(s) \in Nat
      /\ \A i \in DOMAIN s \ {1} : i - 1 \in DOMAIN s
  <2>1. DOMAIN s = 1..Len(s) /\ Len(s) \in Nat
    BY <1>1, LenProperties
  <2>. QED  BY <2>1
<1>4. \A i \in DOMAIN t : t[i].k \in Loops => i = Len(t)
  BY <1>1, <1>2 DEF Shape, Alike
<1>5. \A i \in DOMAIN t : t[i].k = "free" =>
         /\ i + 1 = Len(t) /\ t[i + 1].k \in Loops
         /\ t[i + 1].k = "purge" => t[i + 1].next # t[i].o
  <2>. SUFFICES ASSUME NEW i \in DOMAIN t, t[i].k = "free"
                PROVE  /\ i + 1 = Len(t) /\ t[i + 1].k \in Loops
                       /\ t[i + 1].k = "purge" => t[i + 1].next # t[i].o
    OBVIOUS
  <2>1. s[i].k = "free" /\ t[i].o = s[i].o
    BY <1>2 DEF Alike, Loops
  <2>2. /\ i + 1 = Len(s) /\ s[i + 1].k \in Loops
        /\ s[i + 1].k = "purge" => s[i + 1].next # s[i].o
    BY <1>1, <1>2, <2>1 DEF Shape
  <2>3. i + 1 \in DOMAIN s
    BY <1>2, <1>3, <2>2
  <2>. QED  BY <2>1, <2>2, <2>3 DEF Alike
<1>6. \A i \in DOMAIN t \ {1} :
         /\ t[i].k \in Pending => t[i - 1].k = "notify"
         /\ t[i].k = "notify" => t[i - 1].k = "user" /\ t[i - 1].why = "name"
  BY <1>1, <1>2, <1>3 DEF Shape, Alike
<1>7. \A i, j \in DOMAIN t : t[i].k \in Pending /\ t[j].k \in Pending => i = j
  BY <1>1, <1>2 DEF Shape, Alike
<1>8. \A i, j \in DOMAIN t :
         t[i].k = "free" /\ t[i].at > 0 /\ t[j].k = "emit" /\ t[j].s = Destroyed =>
           t[i].o # t[j].o
  BY <1>1, <1>2 DEF Shape, Alike, Loops
<1>. QED  BY <1>4, <1>5, <1>6, <1>7, <1>8 DEF Stacked, Shape

-----------------------------------------------------------------------------
(* The invariant in two halves: what the tables hold, and the stack.       *)

ClassFact == \A c \in Classes : code[Destroyed] + 1 \in DOMAIN signals[c]

Data == TypeOK /\ NamesAgree /\ Store /\ ClassFact

Held(s) == Stacked(s) /\ \A f \in Elements(s) : Sound(f)

Inv == Data /\ NoFault /\ Held(stack)

dataVars == <<classVars, typeVars, signalVars, lifeVars, nameVars, weakVars>>

LEMMA Conclude ==
    ASSUME NEW s, stack' = s, Held(s)', Data', fault' = "none"
    PROVE  Inv'
BY DEF Inv, Held, NoFault, Stacked

LEMMA EmptyHeld == Held(<< >>) /\ Held(<< >>)'
BY DEF Held, Stacked, Shape, Elements

LEMMA SoundFrame == ASSUME NEW f, Sound(f) PROVE f \in Frame
BY DEF Sound

LEMMA SoundFrameThen == ASSUME NEW f, Sound(f)' PROVE f \in Frame
BY DEF Sound, Frame

LEMMA PushThen ==
    ASSUME NEW s, Held(s)', NEW f, Sound(f)', Fits(f, s)
    PROVE  Held(<<f>> \o s)'
<1>1. Stacked(s) /\ \A x \in Elements(s) : Sound(x)'
  BY DEF Held, Stacked, Shape, Frame, Elements
<1>2. f \in Frame
  BY SoundFrameThen
<1>3. Stacked(<<f>> \o s) /\ Elements(<<f>> \o s) = {f} \cup Elements(s)
  BY <1>1, <1>2, Push
<1>. QED  BY <1>1, <1>3 DEF Held, Stacked, Shape, Frame, Elements

\* A step that changes no table.
LEMMA SameData ==
    ASSUME Data, UNCHANGED dataVars
    PROVE  Data' /\ \A f \in Frame : Sound(f) => Sound(f)'
<1>0. /\ UNCHANGED <<made, chain, signals, code, type, slots>>
      /\ UNCHANGED <<calls, blocked, used, dead, objs, told, name, hash, notes, loc, reg>>
  BY DEF dataVars, classVars, typeVars, signalVars, lifeVars, nameVars, weakVars
<1>1. TypeOK'
  BY <1>0 DEF Data, TypeOK, ClassTypeOK, Allocated
<1>2. NamesAgree'
  BY <1>0 DEF Data, NamesAgree, Allocated
<1>3. Store'
  BY <1>0 DEF Data, Store, Allocated, Lists
<1>4. ClassFact'
  BY <1>0 DEF Data, ClassFact
<1>5. ASSUME NEW f, Sound(f) PROVE Sound(f)'
  BY <1>0, <1>5 DEF Sound, Allocated, Has, Connected
<1>. QED  BY <1>1, <1>2, <1>3, <1>4, <1>5 DEF Data

LEMMA HeldThen ==
    ASSUME NEW s, Held(s), \A f \in Frame : Sound(f) => Sound(f)'
    PROVE  Held(s)'
<1>1. \A f \in Elements(s) : Sound(f)'
  BY SoundFrame DEF Held
<1>. QED  BY <1>1 DEF Held, Stacked, Shape, Frame, Elements

-----------------------------------------------------------------------------
(* The call on top of the stack.                                           *)

LEMMA LibraryTop ==
    ASSUME Inv, ~At("user")
    PROVE  \E f \in Frame : \E r :
             /\ stack = <<f>> \o r /\ Top = f /\ Rest = r
             /\ Sound(f) /\ Fits(f, r) /\ Held(r)
             /\ Elements(stack) = {f} \cup Elements(r)
<1>1. stack # << >>
  BY DEF At, Top, User
<1>2. Stacked(stack) /\ \A f \in Elements(stack) : Sound(f)
  BY DEF Inv, Held
<1>3. /\ stack[1] \in Frame /\ stack[1] \in Elements(stack)
      /\ Stacked(Rest) /\ Fits(stack[1], Rest)
      /\ Elements(stack) = {stack[1]} \cup Elements(Rest)
      /\ stack = <<stack[1]>> \o Rest
  BY <1>1, <1>2, Pop DEF Rest
<1>4. Held(Rest) /\ Sound(stack[1])
  BY <1>2, <1>3 DEF Held
<1>. QED  BY <1>1, <1>3, <1>4 DEF Top

\* What may be put on top of a frame of the application.
LEMMA UserTop ==
    ASSUME Inv, At("user")
    PROVE  \E s :
             /\ s = stack /\ Held(s)
             /\ \A f \in Frame :
                  /\ f.k \notin Loops /\ f.k \notin Pending /\ f.k # "free"
                  /\ ~(f.k = "emit" /\ f.s = Destroyed)
                  => Fits(f, s)
             /\ ~Within("name") => /\ \A x \in Elements(s) : x.k \notin Pending
                                   /\ \A f \in Frame : f.k \in Pending => Fits(f, s)
<1>1. PICK s : s = stack
  OBVIOUS
<1>2. Held(s) /\ Stacked(s) /\ s \in Seq(Frame) /\ Shape(s)
  BY <1>1 DEF Inv, Held, Stacked
<1>3. s # << >> => s[1].k = "user"
  BY <1>1 DEF At, Top
<1>4. /\ DOMAIN s = 1..Len(s) /\ Len(s) \in Nat
      /\ \A i \in DOMAIN s \ {1} : i - 1 \in DOMAIN s
      /\ s # << >> <=> Len(s) > 0
  <2>1. DOMAIN s = 1..Len(s) /\ Len(s) \in Nat
    BY <1>2, LenProperties
  <2>. QED  BY <1>2, <2>1, EmptySeq
<1>5. ASSUME ~Within("name")
      PROVE  \A x \in Elements(s) : x.k \notin Pending
  <2>. SUFFICES ASSUME NEW i \in DOMAIN s, s[i].k \in Pending PROVE FALSE
    BY DEF Elements
  <2>1. i # 1 /\ s # << >>
    BY <1>3, <1>4 DEF Pending
  <2>2. i - 1 \in DOMAIN s /\ s[i - 1].k = "notify"
    BY <1>2, <1>4, <2>1 DEF Shape
  <2>3. i - 1 # 1
    BY <1>3, <2>1, <2>2
  <2>4. /\ (i - 1) - 1 \in DOMAIN s
        /\ s[(i - 1) - 1].k = "user" /\ s[(i - 1) - 1].why = "name"
    BY <1>2, <1>4, <2>2, <2>3 DEF Shape
  <2>. QED  BY <1>1, <1>5, <2>4 DEF Within
<1>6. ASSUME NEW f \in Frame, f.k \notin Loops, f.k # "free",
             ~(f.k = "emit" /\ f.s = Destroyed),
             f.k \in Pending => \A x \in Elements(s) : x.k \notin Pending
      PROVE  Fits(f, s)
  BY <1>3, <1>6 DEF Fits, Pending
<1>7. \A f \in Frame : f.k \in Pending => /\ f.k \notin Loops /\ f.k # "free"
                                          /\ f.k # "emit"
  BY DEF Pending, Loops
<1>. QED  BY <1>1, <1>2, <1>5, <1>6, <1>7

LEMMA Exists ==
    ASSUME Data
    PROVE  /\ \A o \in Allocated : ~Gone(o) /\ Touches(o) = "none" /\ o \in Objects
           /\ \A f \in Frame : Sound(f) /\ f.k \notin Loops => f.o \in Allocated
BY DEF Gone, Touches, Allocated, Sound

-----------------------------------------------------------------------------
(* Steps that change the stack alone.                                      *)

LEMMA ListOk ==
    ASSUME Data, NEW o \in Allocated, NEW s \in Signals, Has(o, s)
    PROVE  /\ ListOf(o, s) \in Seq(Nodes)
           /\ Elements(ListOf(o, s)) \subseteq Connected
<1>1. calls[o] \in Seq(Seq(Nodes)) /\ code[s] + 1 \in DOMAIN calls[o]
  BY DEF Data, TypeOK, Allocated, Has
<1>2. calls[o][code[s] + 1] \in Seq(Nodes)
  BY <1>1, ElementOfSeq, LenProperties
<1>3. Elements(calls[o][code[s] + 1]) \subseteq Connected
  BY <1>1 DEF Connected
<1>. QED  BY <1>2, <1>3 DEF ListOf

LEMMA HasAll ==
    ASSUME Data, NEW o \in Allocated, NEW s \in Signals, HasSignal(o, s)
    PROVE  Has(o, s)
<1>1. type[o] \in Classes /\ signals[type[o]] \in Seq(Signals) /\ calls[o] \in Seq(Seq(Nodes))
  BY DEF Data, TypeOK, ClassTypeOK, Allocated
<1>2. Len(calls[o]) = Len(signals[type[o]])
  BY DEF Data, Store, Lists
<1>3. DOMAIN calls[o] = DOMAIN signals[type[o]]
  BY <1>1, <1>2, LenProperties
<1>. QED  BY <1>3 DEF HasSignal, Has

LEMMA HasDestroyed ==
    ASSUME Data, NEW o \in Allocated
    PROVE  Destroyed \in Signals /\ Has(o, Destroyed)
<1>1. Destroyed \in Signals
  BY EobjAssumption, ObjectAssumption DEF Elements
<1>2. code[Destroyed] + 1 \in DOMAIN signals[type[o]]
  BY DEF Data, TypeOK, ClassTypeOK, Allocated, ClassFact
<1>. QED  BY <1>1, <1>2, HasAll DEF HasSignal

LEMMA UserFrame ==
    ASSUME Data, NEW o \in Allocated,
           NEW why \in {"signal", "handler", "name", "destructor"}
    PROVE  User(why, o) \in Frame /\ Sound(User(why, o))
BY DEF User, Frame, Sound, Allocated, Pending, Loops

\* A callback may be called from any frame but one that waits for another.
LEMMA UserFits ==
    ASSUME NEW f \in Frame, NEW r \in Seq(Frame), NEW o \in Objects, NEW why,
           f.k \notin Pending, f.k = "notify" => why = "name"
    PROVE  Fits(User(why, o), <<f>> \o r)
<1>1. (<<f>> \o r)[1] = f
  BY Cons
<1>. QED  BY <1>1 DEF Fits, User, Loops, Pending

LEMMA PushUser ==
    ASSUME Data, NEW f, NEW r, NEW o \in Allocated,
           NEW why \in {"signal", "handler", "name", "destructor"},
           Held(<<f>> \o r)', Sound(f)', Held(r), Sound(User(why, o))',
           f.k \notin Pending, f.k = "notify" => why = "name"
    PROVE  Held(<<User(why, o)>> \o (<<f>> \o r))'
<1>1. f \in Frame /\ r \in Seq(Frame) /\ o \in Objects
  BY SoundFrameThen DEF Held, Stacked, Allocated
<1>2. Fits(User(why, o), <<f>> \o r)
  BY <1>1, UserFits
<1>. QED  BY <1>2, PushThen

LEMMA EmitInv ==
    ASSUME Inv, At("user"), fault = "none", UNCHANGED classVars, Emits
    PROVE  Inv'
<1>1. PICK o \in Allocated, s \in Signals \ {Destroyed} : Emit(o, s)
  BY DEF Emits
<1>2. UNCHANGED dataVars /\ fault' = "none"
  BY DEF Emits, dataVars
<1>3. Data /\ Data' /\ \A f \in Frame : Sound(f) => Sound(f)'
  BY <1>2, SameData DEF Inv
<1>4. PICK r : /\ r = stack /\ Held(r)
               /\ \A f \in Frame :
                    /\ f.k \notin Loops /\ f.k \notin Pending /\ f.k # "free"
                    /\ ~(f.k = "emit" /\ f.s = Destroyed)
                    => Fits(f, r)
  BY UserTop
<1>5. PICK e : e = Emission(o, s)
  OBVIOUS
<1>6. o \in Objects /\ Has(o, s)
  BY <1>1, <1>3, HasAll DEF Emit, Allocated
<1>7. e \in Frame /\ e.k = "emit" /\ e.s = s
  BY <1>5, <1>6 DEF Emission, Frame
<1>8. Sound(e)
  <2>1. Unread \notin Nodes
    BY ObjectAssumption DEF Unread, Nodes
  <2>. QED  BY <1>5, <1>6, <1>7, <2>1 DEF Emission, Sound, Pending
<1>9. Held(r)' /\ Sound(e)'
  BY <1>3, <1>4, <1>7, <1>8, HeldThen
<1>10. Held(<<e>> \o r)'
  BY <1>1, <1>4, <1>7, <1>9, PushThen DEF Loops, Pending
<1>11. CASE s \in Handled
  <2>1. User("handler", o) \in Frame /\ Sound(User("handler", o))'
    BY <1>3, UserFrame
  <2>2. Held(<<User("handler", o)>> \o (<<e>> \o r))'
    BY <1>3, <1>4, <1>7, <1>9, <1>10, <2>1, PushUser DEF Pending
  <2>3. stack' = <<User("handler", o), e>> \o r
    BY <1>1, <1>4, <1>5, <1>11 DEF Emit
  <2>4. r \in Seq(Frame)
    BY <1>4 DEF Held, Stacked
  <2>5. stack' = <<User("handler", o)>> \o (<<e>> \o r)
    <3>1. PICK u \in Frame : u = User("handler", o)
      BY <2>1
    <3>2. <<u, e>> \o r = <<u>> \o (<<e>> \o r)
      BY <1>7, <2>4, FramesTwo
    <3>. QED  BY <2>3, <3>1, <3>2
  <2>. QED  BY <1>2, <1>3, <2>2, <2>5, Conclude
<1>12. CASE s \notin Handled
  <2>1. stack' = <<e>> \o r
    BY <1>1, <1>4, <1>5, <1>12 DEF Emit
  <2>. QED  BY <1>2, <1>3, <1>10, <2>1, Conclude
<1>. QED  BY <1>11, <1>12

LEMMA FirstOk ==
    ASSUME NEW list \in Seq(Nodes)
    PROVE  /\ First(list) \in Nodes \cup {Nil}
           /\ First(list) \in Nodes => First(list) \in Elements(list)
           /\ \A n : Next_(list, n) \in Nodes \cup {Nil}
           /\ \A n : Next_(list, n) \in Nodes => Next_(list, n) \in Elements(list)
<1>1. Nil \notin Nodes
  BY DEF Nil, Nodes
<1>2. DOMAIN list = 1..Len(list) /\ Len(list) \in Nat /\ \A i \in DOMAIN list : list[i] \in Nodes
  BY LenProperties, ElementOfSeq
<1>3. CASE list = << >>
  BY <1>1, <1>2, <1>3 DEF First, Next_
<1>4. CASE list # << >>
  <2>1. 1 \in DOMAIN list
    BY <1>2, <1>4, EmptySeq
  <2>2. ASSUME NEW n
        PROVE  Next_(list, n) = Nil \/ \E i \in DOMAIN list : Next_(list, n) = list[i]
    <3>. DEFINE at == {i \in DOMAIN list : list[i] = n /\ i < Len(list)}
    <3>1. CASE at = {}
      BY <3>1 DEF Next_
    <3>2. CASE at # {}
      <4>1. (CHOOSE i \in at : TRUE) \in at
        BY <3>2
      <4>2. (CHOOSE i \in at : TRUE) + 1 \in DOMAIN list
        BY <1>2, <4>1
      <4>. QED  BY <3>2, <4>2 DEF Next_
    <3>. QED  BY <3>1, <3>2
  <2>. QED  BY <1>1, <1>2, <1>4, <2>1, <2>2 DEF First, Elements
<1>. QED  BY <1>3, <1>4

EmitFrame == [k : {"emit"}, o : Objects, s : Signals, ptr : BOOLEAN, reg : BOOLEAN,
              late : BOOLEAN, next : Nodes \cup {Nil, Unread}, keep : BOOLEAN]

LEMMA EmitKind ==
    ASSUME NEW f \in Frame, f.k = "emit", Sound(f)
    PROVE  f \in EmitFrame /\ f.o \in Allocated /\ Has(f.o, f.s) /\ f.s \in Signals
<1>1. f \in EmitFrame
  BY FrameKinds DEF EmitFrame
<1>. QED  BY <1>1 DEF Sound, Loops, EmitFrame

\* An emission that goes on with a callback that is connected, or ends.
LEMMA Onward ==
    ASSUME NEW f \in Frame, NEW r, f.k = "emit", Sound(f), Fits(f, r),
           NEW n \in Nodes \cup {Nil}, n \in Nodes => n \in Connected
    PROVE  /\ [f EXCEPT !.next = n] \in Frame
           /\ Sound([f EXCEPT !.next = n])
           /\ Fits([f EXCEPT !.next = n], r)
<1>1. f \in EmitFrame /\ f.o \in Allocated /\ Has(f.o, f.s)
  BY EmitKind
<1>2. PICK g : g = [f EXCEPT !.next = n]
  OBVIOUS
<1>3. /\ g \in EmitFrame
      /\ g.k = "emit" /\ g.o = f.o /\ g.s = f.s /\ g.ptr = f.ptr /\ g.reg = f.reg
      /\ g.late = f.late /\ g.next = n
  BY <1>1, <1>2 DEF EmitFrame
<1>4. g \in Frame
  BY <1>3 DEF Frame, EmitFrame
<1>5. Fits(g, r)
  BY <1>3 DEF Fits, Loops, Pending
<1>6. Sound(g)
  BY <1>1, <1>3, <1>4 DEF Sound, Pending
<1>. QED  BY <1>2, <1>4, <1>5, <1>6

LEMMA EmissionReadsInv ==
    ASSUME Inv, fault = "none", UNCHANGED classVars, Emission_, EmissionReads
    PROVE  Inv'
<1>1. UNCHANGED dataVars /\ ~At("user")
  BY DEF Emission_, EmissionReads, dataVars, At
<1>2. Data /\ Data' /\ \A f \in Frame : Sound(f) => Sound(f)'
  BY <1>1, SameData DEF Inv
<1>3. PICK f \in Frame : \E r : /\ stack = <<f>> \o r /\ Top = f /\ Rest = r
                                /\ Sound(f) /\ Fits(f, r) /\ Held(r)
  BY <1>1, LibraryTop
<1>4. PICK r : /\ stack = <<f>> \o r /\ Top = f /\ Rest = r
               /\ Sound(f) /\ Fits(f, r) /\ Held(r)
  BY <1>3
<1>5. f.k = "emit" /\ f.next = Unread
  BY <1>4 DEF EmissionReads, At
<1>6. f \in EmitFrame /\ f.o \in Allocated /\ Has(f.o, f.s) /\ f.s \in Signals
  BY <1>4, <1>5, EmitKind
<1>7. fault' = "none"
  BY <1>2, <1>4, <1>6, Exists DEF EmissionReads
<1>8. ListOf(f.o, f.s) \in Seq(Nodes) /\ Elements(ListOf(f.o, f.s)) \subseteq Connected
  BY <1>2, <1>6, ListOk
<1>9. PICK n \in Nodes \cup {Nil} :
        /\ stack' = <<[f EXCEPT !.next = n]>> \o r
        /\ n \in Nodes => n \in Connected
  <2>1. Nil \notin Nodes
    BY DEF Nil, Nodes
  <2>. QED  BY <1>4, <1>8, <2>1, FirstOk DEF EmissionReads
<1>10. PICK g \in Frame : g = [f EXCEPT !.next = n] /\ Sound(g) /\ Fits(g, r)
  BY <1>4, <1>5, <1>9, Onward
<1>11. Held(<<g>> \o r)'
  BY <1>2, <1>4, <1>10, HeldThen, PushThen
<1>. QED  BY <1>2, <1>7, <1>9, <1>10, <1>11, Conclude

LEMMA EmissionCallsInv ==
    ASSUME Inv, fault = "none", UNCHANGED classVars, Emission_, EmissionCalls
    PROVE  Inv'
<1>1. UNCHANGED dataVars /\ ~At("user")
  BY DEF Emission_, EmissionCalls, dataVars, At
<1>2. Data /\ Data' /\ \A f \in Frame : Sound(f) => Sound(f)'
  BY <1>1, SameData DEF Inv
<1>3. PICK f \in Frame : \E r : /\ stack = <<f>> \o r /\ Top = f /\ Rest = r
                                /\ Sound(f) /\ Fits(f, r) /\ Held(r)
  BY <1>1, LibraryTop
<1>4. PICK r : /\ stack = <<f>> \o r /\ Top = f /\ Rest = r
               /\ Sound(f) /\ Fits(f, r) /\ Held(r)
  BY <1>3
<1>5. f.k = "emit" /\ f.next # Unread /\ f.next # Nil
  BY <1>4 DEF EmissionCalls, At, Proceeds
<1>6. f \in EmitFrame /\ f.o \in Allocated /\ Has(f.o, f.s) /\ f.s \in Signals
  BY <1>4, <1>5, EmitKind
<1>7. f.next \in Connected
  BY <1>4, <1>5, <1>6 DEF EmitFrame, Sound
<1>8. /\ fault' = "none"
      /\ stack' = (IF f.next \in blocked THEN <<>> ELSE <<User("signal", f.o)>>) \o
                    <<[f EXCEPT !.next = Next_(ListOf(f.o, f.s), f.next)]>> \o r
  BY <1>4, <1>7 DEF EmissionCalls
<1>9. PICK n \in Nodes \cup {Nil} :
        n = Next_(ListOf(f.o, f.s), f.next) /\ (n \in Nodes => n \in Connected)
  <2>1. ListOf(f.o, f.s) \in Seq(Nodes) /\ Elements(ListOf(f.o, f.s)) \subseteq Connected
    BY <1>2, <1>6, ListOk
  <2>. QED  BY <2>1, FirstOk
<1>10. PICK g \in Frame : g = [f EXCEPT !.next = n] /\ Sound(g) /\ Fits(g, r)
  BY <1>4, <1>5, <1>9, Onward
<1>11. Held(<<g>> \o r)' /\ Sound(g)' /\ r \in Seq(Frame)
  BY <1>2, <1>4, <1>10, HeldThen, PushThen DEF Held, Stacked
<1>12. g.k = "emit"
  BY <1>5, <1>6, <1>10 DEF EmitFrame
<1>13. PICK u \in Frame : u = User("signal", f.o) /\ Sound(u)'
  BY <1>2, <1>6, UserFrame
<1>14. Held(<<u>> \o (<<g>> \o r))'
  BY <1>2, <1>4, <1>6, <1>11, <1>12, <1>13, PushUser DEF Pending
<1>15. <<>> \o <<g>> \o r = <<g>> \o r /\ <<u>> \o <<g>> \o r = <<u>> \o (<<g>> \o r)
  BY <1>11, FramesTwo
<1>. QED  BY <1>2, <1>8, <1>9, <1>10, <1>11, <1>13, <1>14, <1>15, Conclude

\* The call on top of the stack returns.
LEMMA PopInv ==
    ASSUME Inv, ~At("user"), UNCHANGED dataVars, stack' = Rest, fault' = "none"
    PROVE  Inv'
<1>1. Data' /\ \A f \in Frame : Sound(f) => Sound(f)'
  BY SameData DEF Inv
<1>2. PICK r : Rest = r /\ Held(r)
  BY LibraryTop
<1>. QED  BY <1>1, <1>2, HeldThen, Conclude

LEMMA EmissionEndsInv ==
    ASSUME Inv, fault = "none", UNCHANGED classVars, Emission_, EmissionEnds
    PROVE  Inv'
<1>1. UNCHANGED dataVars /\ ~At("user") /\ At("emit") /\ stack' = Rest
  BY DEF Emission_, EmissionEnds, dataVars, At
<1>2. PICK f \in Frame : Top = f /\ Sound(f)
  BY <1>1, LibraryTop
<1>3. f.o \in Allocated
  BY <1>1, <1>2, EmitKind DEF At
<1>4. fault' = "none"
  BY <1>2, <1>3, Exists DEF EmissionEnds, Inv
<1>. QED  BY <1>1, <1>4, PopInv

LEMMA ReturnsInv ==
    ASSUME Inv, fault = "none", At("user"), UNCHANGED <<classVars, typeVars, lifeVars, nameVars, weakVars>>,
           NEW more \in BOOLEAN, Returns(more)
    PROVE  Inv'
<1>1. UNCHANGED dataVars /\ fault' = "none" /\ stack # <<>>
  BY DEF Returns, dataVars
<1>2. Data /\ Data' /\ \A f \in Frame : Sound(f) => Sound(f)'
  BY <1>1, SameData DEF Inv
<1>3. PICK s : s = stack /\ Held(s) /\ s # <<>>
  BY <1>1 DEF Inv
<1>4. PICK r : r = Tail(s) /\ Stacked(r) /\ Elements(s) = {s[1]} \cup Elements(r)
  BY <1>3, Pop DEF Held
<1>5. Held(r)
  BY <1>3, <1>4 DEF Held
<1>6. /\ s \in Seq(Frame) /\ r \in Seq(Frame) /\ Len(r) = Len(s) - 1
      /\ \A i \in DOMAIN r : r[i] = s[i + 1]
      /\ DOMAIN r = 1..Len(r) /\ Len(r) \in Nat
  <2>1. s \in Seq(Frame) /\ r \in Seq(Frame)
    BY <1>3, <1>4 DEF Held, Stacked
  <2>2. DOMAIN r = 1..Len(r) /\ Len(r) \in Nat
    BY <2>1, LenProperties
  <2>3. Len(r) = Len(s) - 1 /\ \A i \in DOMAIN r : r[i] = s[i + 1]
    BY <1>3, <1>4, <2>1, Uncons
  <2>. QED  BY <2>1, <2>2, <2>3
<1>7. stack' = [i \in 1..Len(r) |-> IF i = 1 THEN Returned(r[1], more) ELSE r[i]]
  <2>1. stack' = [i \in 1..Len(s) - 1 |-> IF i = 1 THEN Returned(s[2], more) ELSE s[i + 1]]
    BY <1>3 DEF Returns
  <2>2. \A i \in 1..Len(r) : r[i] = s[i + 1]
    BY <1>6
  <2>. QED  BY <1>6, <2>1, <2>2
<1>8. CASE r = <<>>
  <2>1. stack' = <<>>
    BY <1>6, <1>7, <1>8
  <2>. QED  BY <1>1, <1>2, <2>1, EmptyHeld, Conclude
<1>9. CASE r # <<>>
  <2>1. PICK f, q : /\ f \in Frame
                    /\ f = r[1] /\ q = Tail(r) /\ Stacked(q) /\ Fits(f, q)
                    /\ Elements(r) = {f} \cup Elements(q) /\ r = <<f>> \o q
    BY <1>4, <1>9, Pop
  <2>2. Sound(f) /\ Held(q)
    BY <1>5, <2>1 DEF Held
  <2>3. PICK g : g = Returned(f, more)
    OBVIOUS
  <2>4. g \in Frame /\ Fits(g, q) /\ Sound(g)
    <3>1. CASE f.k # "emit"
      BY <2>1, <2>2, <2>3, <3>1 DEF Returned
    <3>2. CASE f.k = "emit"
      <4>1. f \in EmitFrame
        BY <2>1, <2>2, <3>2, EmitKind
      <4>2. /\ g \in EmitFrame
            /\ g.k = "emit" /\ g.o = f.o /\ g.s = f.s /\ g.ptr = f.ptr /\ g.reg = f.reg
            /\ g.late = f.late /\ g.next = f.next
        BY <2>3, <3>2, <4>1 DEF Returned, EmitFrame
      <4>3. g \in Frame
        BY <4>2 DEF Frame, EmitFrame
      <4>4. Fits(g, q)
        BY <2>1, <3>2, <4>2 DEF Fits, Loops, Pending
      <4>5. Sound(g)
        BY <2>2, <3>2, <4>2, <4>3 DEF Sound, Pending
      <4>. QED  BY <4>3, <4>4, <4>5
    <3>. QED  BY <3>1, <3>2
  <2>5. stack' = <<g>> \o q
    <3>1. /\ q \in Seq(Frame) /\ <<g>> \o q \in Seq(Frame) /\ Len(<<g>> \o q) = Len(r)
          /\ (<<g>> \o q)[1] = g
          /\ \A i \in DOMAIN (<<g>> \o q) \ {1} : (<<g>> \o q)[i] = r[i]
      <4>1. q \in Seq(Frame)
        BY <2>1 DEF Stacked
      <4>2. /\ <<g>> \o q \in Seq(Frame) /\ Len(<<g>> \o q) = Len(q) + 1
            /\ (<<g>> \o q)[1] = g
            /\ \A i \in DOMAIN (<<g>> \o q) \ {1} : (<<g>> \o q)[i] = q[i - 1]
            /\ DOMAIN (<<g>> \o q) = 1..Len(q) + 1
        BY <2>4, <4>1, Cons
      <4>3. /\ Len(<<f>> \o q) = Len(q) + 1
            /\ DOMAIN (<<f>> \o q) = 1..Len(q) + 1
            /\ \A i \in DOMAIN (<<f>> \o q) \ {1} : (<<f>> \o q)[i] = q[i - 1]
        BY <4>1, Cons
      <4>. QED  BY <2>1, <4>1, <4>2, <4>3
    <3>2. DOMAIN (<<g>> \o q) = 1..Len(r)
      BY <3>1, LenProperties
    <3>3. PICK t : t = <<g>> \o q
      OBVIOUS
    <3>4. \A i \in 1..Len(r) : t[i] = IF i = 1 THEN g ELSE r[i]
      BY <3>1, <3>2, <3>3
    <3>5. t = [i \in 1..Len(r) |-> t[i]]
      BY <3>1, <3>2, <3>3
    <3>6. stack' = [i \in 1..Len(r) |-> IF i = 1 THEN g ELSE r[i]]
      BY <1>7, <2>1, <2>3
    <3>. QED  BY <3>3, <3>4, <3>5, <3>6
  <2>6. Held(<<g>> \o q)'
    BY <1>2, <2>2, <2>4, HeldThen, PushThen
  <2>. QED  BY <1>1, <1>2, <2>5, <2>6, Conclude
<1>. QED  BY <1>8, <1>9

LEMMA NotifyInv ==
    ASSUME Inv, fault = "none", UNCHANGED classVars, NotifyStep
    PROVE  Inv'
<1>1. UNCHANGED dataVars /\ ~At("user")
  BY DEF NotifyStep, dataVars, At
<1>2. Data /\ Data' /\ \A f \in Frame : Sound(f) => Sound(f)'
  BY <1>1, SameData DEF Inv
<1>3. PICK f \in Frame : \E r : /\ stack = <<f>> \o r /\ Top = f /\ Rest = r
                                /\ Sound(f) /\ Fits(f, r) /\ Held(r)
  BY <1>1, LibraryTop
<1>4. PICK r : Top = f /\ Rest = r /\ Sound(f) /\ Fits(f, r) /\ Held(r)
  BY <1>3
<1>5. f.k = "notify" /\ f \in [k : {"notify"}, o : Objects, at : Nat] /\ f.o \in Allocated
  BY <1>2, <1>4, FrameKinds, Exists DEF NotifyStep, At, Loops
<1>6. fault' = "none"
  BY <1>2, <1>4, <1>5, Exists DEF NotifyStep
<1>7. CASE f.at > notes[f.o]
  BY <1>1, <1>4, <1>6, <1>7, PopInv DEF NotifyStep
<1>8. CASE ~(f.at > notes[f.o])
  <2>1. PICK g : g = [f EXCEPT !.at = @ + 1]
    OBVIOUS
  <2>2. g \in [k : {"notify"}, o : Objects, at : Nat] /\ g.k = "notify" /\ g.o = f.o
    BY <1>5, <2>1
  <2>3. g \in Frame
    BY <2>2 DEF Frame
  <2>4. Sound(g) /\ Fits(g, r)
    BY <1>4, <1>5, <2>2, <2>3 DEF Sound, Fits, Loops, Pending
  <2>5. PICK u \in Frame : u = User("name", f.o) /\ Sound(u)'
    BY <1>2, <1>5, UserFrame
  <2>6. Held(<<g>> \o r)' /\ Sound(g)' /\ r \in Seq(Frame)
    BY <1>2, <1>4, <2>3, <2>4, HeldThen, PushThen DEF Held, Stacked
  <2>7. Held(<<u>> \o (<<g>> \o r))'
    BY <1>2, <1>4, <1>5, <2>2, <2>5, <2>6, PushUser DEF Pending
  <2>8. stack' = <<u>> \o (<<g>> \o r)
    BY <1>4, <1>8, <2>1, <2>3, <2>5, <2>6, FramesTwo DEF NotifyStep
  <2>. QED  BY <1>2, <1>6, <2>7, <2>8, Conclude
<1>. QED  BY <1>7, <1>8

LEMMA FreeCallsInv ==
    ASSUME Inv, fault = "none", UNCHANGED classVars, FreeCalls
    PROVE  Inv'
<1>1. UNCHANGED dataVars /\ ~At("user") /\ fault' = "none"
  BY DEF FreeCalls, dataVars, At
<1>2. Data /\ Data' /\ \A f \in Frame : Sound(f) => Sound(f)'
  BY <1>1, SameData DEF Inv
<1>3. PICK f \in Frame : \E r : /\ stack = <<f>> \o r /\ Top = f /\ Rest = r
                                /\ Sound(f) /\ Fits(f, r) /\ Held(r)
  BY <1>1, LibraryTop
<1>4. PICK r : Top = f /\ Rest = r /\ Sound(f) /\ Fits(f, r) /\ Held(r)
  BY <1>3
<1>5. /\ f.k = "free" /\ f \in [k : {"free"}, o : Objects, at : Nat]
      /\ f.o \in Allocated /\ f.o \in dead
  BY <1>2, <1>4, FrameKinds, Exists DEF FreeCalls, At, Loops
<1>6. PICK g : g = [f EXCEPT !.at = @ + 1]
  OBVIOUS
<1>7. g \in [k : {"free"}, o : Objects, at : Nat] /\ g.k = "free" /\ g.o = f.o
  BY <1>5, <1>6
<1>8. g \in Frame
  BY <1>7 DEF Frame
<1>9. Sound(g) /\ Fits(g, r)
  BY <1>4, <1>5, <1>7, <1>8 DEF Sound, Fits, Loops, Pending
<1>10. PICK u \in Frame : u = User("destructor", f.o) /\ Sound(u)'
  BY <1>2, <1>5, UserFrame
<1>11. Held(<<g>> \o r)' /\ Sound(g)' /\ r \in Seq(Frame)
  BY <1>2, <1>4, <1>8, <1>9, HeldThen, PushThen DEF Held, Stacked
<1>12. Held(<<u>> \o (<<g>> \o r))'
  BY <1>2, <1>4, <1>5, <1>7, <1>10, <1>11, PushUser DEF Pending
<1>13. stack' = <<u>> \o (<<g>> \o r)
  BY <1>4, <1>6, <1>8, <1>10, <1>11, FramesTwo DEF FreeCalls
<1>. QED  BY <1>1, <1>2, <1>12, <1>13, Conclude

LEMMA HeadOk ==
    ASSUME Data
    PROVE  /\ Head_(objs) \in Allocated \cup {None}
           /\ objs # <<>> => objs[1] \in Allocated
           /\ \A o : Successor(o) \in Allocated \cup {None}
           /\ \A o \in Objects : Successor(o) # o
<1>1. /\ objs \in Seq(Objects) /\ Elements(objs) = Allocated
      /\ DOMAIN objs = 1..Len(objs) /\ Len(objs) \in Nat
      /\ \A i, j \in DOMAIN objs : objs[i] = objs[j] => i = j
  BY LenProperties DEF Data, TypeOK, Store
<1>2. objs # <<>> => objs[1] \in Allocated
  <2>1. objs # <<>> => 1 \in DOMAIN objs
    BY <1>1, EmptySeq
  <2>. QED  BY <1>1, <2>1 DEF Elements
<1>3. ASSUME NEW o
      PROVE  /\ Successor(o) \in Allocated \cup {None}
             /\ o \in Objects => Successor(o) # o
  <2>. DEFINE at == {i \in DOMAIN objs : objs[i] = o /\ i < Len(objs)}
  <2>1. CASE at = {}
    BY <2>1, ObjectAssumption DEF Successor
  <2>2. CASE at # {}
    <3>1. PICK i \in at : i = CHOOSE j \in at : TRUE
      BY <2>2
    <3>2. i \in DOMAIN objs /\ objs[i] = o /\ i + 1 \in DOMAIN objs /\ i # i + 1
      BY <1>1, <3>1
    <3>3. Successor(o) = objs[i + 1]
      BY <2>2, <3>1 DEF Successor
    <3>. QED  BY <1>1, <3>2, <3>3 DEF Elements
  <2>. QED  BY <2>1, <2>2
<1>. QED  BY <1>2, <1>3 DEF Head_

\* A loop begins with nothing under way.
LEMMA LoopInv ==
    ASSUME Inv, stack = <<>>, fault' = fault, UNCHANGED dataVars, NEW f \in Frame,
           f.k \in Loops, Sound(f), stack' = <<f>> \o stack
    PROVE  Inv'
<1>1. Data' /\ \A x \in Frame : Sound(x) => Sound(x)'
  BY SameData DEF Inv
<1>2. PICK s : s = stack /\ s = <<>>
  OBVIOUS
<1>3. Held(s)' /\ Fits(f, s)
  BY <1>2, EmptyHeld DEF Fits, Loops, Elements, Pending
<1>4. Held(<<f>> \o s)'
  BY <1>1, <1>3, PushThen
<1>. QED  BY <1>1, <1>2, <1>4, Conclude DEF Inv, NoFault

LEMMA PurgeInv ==
    ASSUME Inv, stack = <<>>, UNCHANGED classVars, Purge
    PROVE  Inv'
<1>1. PICK f : f = [k |-> "purge", next |-> Head_(objs)]
  OBVIOUS
<1>2. f.next \in Allocated \cup {None} /\ f.k = "purge"
  BY <1>1, HeadOk DEF Inv
<1>3. f \in Frame
  BY <1>1, <1>2 DEF Frame, Allocated
<1>4. Sound(f)
  BY <1>2, <1>3 DEF Sound, Loops, Pending
<1>. QED  BY <1>1, <1>2, <1>3, <1>4, LoopInv DEF Purge, dataVars, Loops

LEMMA ShutdownInv ==
    ASSUME Inv, stack = <<>>, UNCHANGED classVars, Shutdown
    PROVE  Inv'
<1>1. PICK f : f = [k |-> "shutdown"]
  OBVIOUS
<1>2. f \in Frame /\ f.k = "shutdown"
  BY <1>1 DEF Frame
<1>3. Sound(f)
  BY <1>2 DEF Sound, Loops, Pending
<1>. QED  BY <1>1, <1>2, <1>3, LoopInv DEF Shutdown, dataVars, Loops

LEMMA FreeFrame ==
    ASSUME NEW o \in Allocated
    PROVE  Freeing(o) \in Frame /\ Sound(Freeing(o))
           /\ Freeing(o).k = "free" /\ Freeing(o).o = o
BY DEF Freeing, Frame, Sound, Loops, Pending, Allocated

\* What frees an object is put on a loop that will not look at it.
LEMMA FreeFits ==
    ASSUME NEW f \in Frame, f.k = "free", NEW g \in Frame, g.k \in Loops,
           g.k = "purge" => g.next # f.o
    PROVE  Fits(f, <<g>> \o <<>>)
<1>1. << >> \in Seq(Frame)
  OBVIOUS
<1>2. /\ (<<g>> \o << >>)[1] = g /\ Len(<<g>> \o << >>) = Len(<< >>) + 1
  BY <1>1, Cons
<1>3. Len(<<g>> \o << >>) = 1
  BY <1>2
<1>. QED  BY <1>2, <1>3 DEF Fits, Loops, Pending

LEMMA PurgeStepInv ==
    ASSUME Inv, fault = "none", UNCHANGED classVars, PurgeStep
    PROVE  Inv'
<1>1. UNCHANGED dataVars /\ ~At("user")
  BY DEF PurgeStep, dataVars, At
<1>2. Data /\ Data' /\ \A f \in Frame : Sound(f) => Sound(f)'
  BY <1>1, SameData DEF Inv
<1>3. PICK f \in Frame : \E r : /\ stack = <<f>> \o r /\ Top = f /\ Rest = r
                                /\ Sound(f) /\ Fits(f, r) /\ Held(r)
  BY <1>1, LibraryTop
<1>4. PICK r : Top = f /\ Rest = r /\ Sound(f) /\ Fits(f, r) /\ Held(r)
  BY <1>3
<1>5. /\ f.k = "purge" /\ f \in [k : {"purge"}, next : Objects \cup {None}]
      /\ f.next # None /\ f.next \in Allocated /\ r = <<>>
  BY <1>4, FrameKinds DEF PurgeStep, At, Sound, Fits, Loops
<1>6. fault' = "none"
  BY <1>2, <1>4, <1>5, Exists DEF PurgeStep
<1>7. PICK n : n = Successor(f.next)
  OBVIOUS
<1>8. n \in Allocated \cup {None} /\ n # f.next
  BY <1>2, <1>5, <1>7, HeadOk DEF Allocated
<1>9. PICK g : g = [f EXCEPT !.next = n]
  OBVIOUS
<1>10. g \in [k : {"purge"}, next : Objects \cup {None}] /\ g.k = "purge" /\ g.next = n
  BY <1>5, <1>8, <1>9 DEF Allocated
<1>11. g \in Frame
  BY <1>10 DEF Frame
<1>12. Sound(g) /\ Fits(g, r)
  BY <1>5, <1>8, <1>10, <1>11 DEF Sound, Fits, Loops, Pending, Elements
<1>13. Held(<<g>> \o r)' /\ r \in Seq(Frame)
  BY <1>2, <1>4, <1>11, <1>12, HeldThen, PushThen DEF Held, Stacked
<1>14. PICK e \in Frame : e = Freeing(f.next) /\ Sound(e) /\ e.k = "free" /\ e.o = f.next
  BY <1>5, FreeFrame
<1>15. stack' = (IF f.next \in dead THEN <<e>> ELSE <<>>) \o <<g>> \o r
  BY <1>4, <1>5, <1>7, <1>9, <1>14 DEF PurgeStep
<1>16. CASE f.next \in dead
  <2>1. Fits(e, <<g>> \o r)
    BY <1>5, <1>8, <1>10, <1>11, <1>14, FreeFits DEF Loops
  <2>2. Held(<<e>> \o (<<g>> \o r))'
    BY <1>2, <1>13, <1>14, <2>1, PushThen
  <2>3. stack' = <<e>> \o (<<g>> \o r)
    BY <1>11, <1>13, <1>15, <1>16, FramesTwo
  <2>. QED  BY <1>2, <1>6, <2>2, <2>3, Conclude
<1>17. CASE f.next \notin dead
  <2>1. stack' = <<g>> \o r
    BY <1>11, <1>13, <1>15, <1>17, FramesTwo
  <2>. QED  BY <1>2, <1>6, <1>13, <2>1, Conclude
<1>. QED  BY <1>16, <1>17

LEMMA PurgeEndsInv ==
    ASSUME Inv, fault = "none", UNCHANGED classVars, PurgeEnds
    PROVE  Inv'
BY PopInv DEF PurgeEnds, dataVars, At

LEMMA ShutdownStepInv ==
    ASSUME Inv, fault = "none", UNCHANGED classVars, ShutdownStep
    PROVE  Inv'
<1>1. ~At("user") /\ fault' = "none"
  BY DEF ShutdownStep, At
<1>2. Data
  BY DEF Inv
<1>3. UNCHANGED dataVars
  <2>1. CASE objs = <<>>
    <3>1. Allocated = {}
      BY <1>2, <2>1 DEF Data, TypeOK, Elements
    <3>2. hash \in [Names -> Seq(Objects)] /\ \A n \in Names : Elements(hash[n]) = {}
      BY <1>2, <3>1 DEF Data, TypeOK, NamesAgree, Elements
    <3>3. ASSUME NEW n \in Names PROVE hash[n] = <<>>
      <4>1. hash[n] \in Seq(Objects) /\ DOMAIN hash[n] = {}
        BY <3>2 DEF Elements
      <4>2. hash[n] # <<>> => 1 \in DOMAIN hash[n]
        BY <4>1, FirstIn
      <4>. QED  BY <4>1, <4>2
    <3>4. hash' = hash
      BY <2>1, <3>2, <3>3 DEF ShutdownStep
    <3>. QED  BY <3>4 DEF ShutdownStep, dataVars, nameVars
  <2>2. CASE objs # <<>>
    BY <2>2 DEF ShutdownStep, dataVars, nameVars
  <2>. QED  BY <2>1, <2>2
<1>4. CASE objs = <<>>
  BY <1>1, <1>3, <1>4, PopInv DEF ShutdownStep
<1>5. CASE objs # <<>>
  <2>1. Data' /\ \A f \in Frame : Sound(f) => Sound(f)'
    BY <1>2, <1>3, SameData
  <2>2. PICK f \in Frame : \E r : /\ stack = <<f>> \o r /\ Top = f /\ Rest = r
                                  /\ Sound(f) /\ Fits(f, r) /\ Held(r)
    BY <1>1, LibraryTop
  <2>3. PICK r : stack = <<f>> \o r /\ Top = f /\ Sound(f) /\ Fits(f, r) /\ Held(r)
    BY <2>2
  <2>4. f.k = "shutdown" /\ r = <<>>
    BY <2>3 DEF ShutdownStep, At, Fits, Loops
  <2>5. PICK e \in Frame : e = Freeing(objs[1]) /\ Sound(e) /\ e.k = "free"
    BY <1>2, <1>5, HeadOk, FreeFrame
  <2>6. Held(<<f>> \o r)'
    BY <2>1, <2>3, HeldThen, PushThen
  <2>7. Fits(e, <<f>> \o r)
    BY <2>4, <2>5, FreeFits DEF Loops
  <2>8. Held(<<e>> \o (<<f>> \o r))'
    BY <2>1, <2>5, <2>6, <2>7, PushThen
  <2>9. stack' = <<e>> \o (<<f>> \o r)
    BY <1>5, <2>3, <2>5 DEF ShutdownStep
  <2>. QED  BY <1>1, <2>1, <2>8, <2>9, Conclude
<1>. QED  BY <1>4, <1>5

LEMMA NameFindInv ==
    ASSUME Inv, fault = "none", UNCHANGED classVars, NEW n \in Names, NameFind(n)
    PROVE  Inv'
<1>1. UNCHANGED dataVars /\ stack' = stack /\ hash[n] # <<>>
  BY DEF NameFind, dataVars
<1>2. Data /\ Data' /\ \A f \in Frame : Sound(f) => Sound(f)'
  BY <1>1, SameData DEF Inv
<1>3. hash[n][1] \in Allocated
  <2>1. 1 \in DOMAIN hash[n]
    <3>1. hash[n] \in Seq(Objects)
      BY <1>2 DEF Data, TypeOK
    <3>. QED  BY <1>1, <3>1, EmptySeq, LenProperties
  <2>. QED  BY <1>2, <2>1 DEF Data, NamesAgree
<1>4. fault' = "none"
  BY <1>1, <1>2, <1>3, Exists DEF NameFind, Head_
<1>5. PICK s : s = stack /\ Held(s)
  BY DEF Inv
<1>. QED  BY <1>1, <1>2, <1>4, <1>5, HeldThen, Conclude

-----------------------------------------------------------------------------
(* Weak pointers and callbacks on names.                                   *)

LEMMA SameStack ==
    ASSUME Inv, Data', \A f \in Frame : Sound(f) => Sound(f)', stack' = stack, fault' = fault
    PROVE  Inv'
<1>1. PICK s : s = stack /\ Held(s)
  BY DEF Inv
<1>. QED  BY <1>1, HeldThen, Conclude DEF Inv, NoFault

\* What the frames say is not about weak pointers or callbacks on names.
LEMMA OtherTables ==
    ASSUME UNCHANGED <<classVars, type, calls, blocked, used, dead, objs, name, hash>>
    PROVE  \A f \in Frame : Sound(f) => Sound(f)'
<1>1. UNCHANGED <<made, chain, signals, code, type, calls, blocked, used, dead, objs, name, hash>>
  BY DEF classVars
<1>. QED  BY <1>1 DEF Sound, Allocated, Has, Connected

LEMMA NoteAddInv ==
    ASSUME Inv, UNCHANGED classVars, NEW o \in Objects, NoteAdd(o)
    PROVE  Inv'
<1>1. /\ UNCHANGED <<made, chain, signals, code, type, slots, calls, blocked, used, dead, objs,
                     told, name, hash, loc, reg, stack, fault>>
      /\ notes[o] < MaxNotes /\ notes' = [notes EXCEPT ![o] = @ + 1]
  BY DEF NoteAdd, classVars, typeVars, signalVars, lifeVars, weakVars
<1>2. Data
  BY DEF Inv
<1>3. notes' \in [Objects -> 0..MaxNotes]
  <2>1. notes \in [Objects -> 0..MaxNotes] /\ MaxNotes \in Nat
    BY <1>2, ObjectAssumption DEF Data, TypeOK
  <2>2. notes[o] + 1 \in 0..MaxNotes
    BY <1>1, <2>1
  <2>. QED  BY <1>1, <2>1, <2>2
<1>4. TypeOK'
  BY <1>1, <1>2, <1>3 DEF Data, TypeOK, ClassTypeOK, Allocated
<1>5. NamesAgree' /\ Store' /\ ClassFact'
  BY <1>1, <1>2 DEF Data, NamesAgree, Store, ClassFact, Allocated, Lists
<1>6. \A f \in Frame : Sound(f) => Sound(f)'
  BY <1>1, OtherTables DEF classVars
<1>. QED  BY <1>1, <1>4, <1>5, <1>6, SameStack DEF Data

LEMMA WeakInv ==
    ASSUME Inv, UNCHANGED classVars, NEW o \in Objects, NEW l \in Locations,
           \/ o \notin dead /\ WeakAdd(o, l)
           \/ WeakRemove(o, l)
    PROVE  Inv'
<1>1. UNCHANGED <<made, chain, signals, code, type, slots, calls, blocked, used, dead, objs,
                  told, name, hash, notes, stack, fault>>
  BY DEF WeakAdd, WeakRemove, classVars, typeVars, signalVars, lifeVars, nameVars
<1>2. Data
  BY DEF Inv
<1>3. /\ loc \in [Locations -> Objects \cup {None}] /\ reg \in [Objects -> SUBSET Locations]
      /\ \A m \in Locations : loc[m] # None =>
           loc[m] \in Allocated \ dead /\ m \in reg[loc[m]]
  BY <1>2 DEF Data, TypeOK, Store
<1>4. /\ loc' \in [Locations -> Objects \cup {None}] /\ reg' \in [Objects -> SUBSET Locations]
      /\ \A m \in Locations : loc'[m] # None =>
           loc'[m] \in Allocated \ dead /\ m \in reg'[loc'[m]]
  <2>1. CASE o \notin dead /\ WeakAdd(o, l)
    BY <1>3, <2>1 DEF WeakAdd
  <2>2. CASE WeakRemove(o, l)
    <3>1. /\ loc' = [loc EXCEPT ![l] = IF @ = o THEN None ELSE @]
          /\ reg' = [reg EXCEPT ![o] = @ \ {l}]
      BY <2>2 DEF WeakRemove
    <3>2. ASSUME NEW m \in Locations, loc'[m] # None
          PROVE  loc'[m] \in Allocated \ dead /\ m \in reg'[loc'[m]]
      <4>1. loc'[m] = loc[m] /\ (m = l => loc[m] # o)
        BY <1>3, <3>1, <3>2
      <4>2. loc[m] \in Allocated \ dead /\ m \in reg[loc[m]]
        BY <1>3, <3>2, <4>1
      <4>. QED  BY <1>3, <3>1, <4>1, <4>2 DEF Allocated
    <3>. QED  BY <1>3, <3>1, <3>2
  <2>. QED  BY <2>1, <2>2
<1>5. TypeOK'
  BY <1>1, <1>2, <1>4 DEF Data, TypeOK, ClassTypeOK, Allocated
<1>6. NamesAgree' /\ ClassFact'
  BY <1>1, <1>2 DEF Data, NamesAgree, ClassFact, Allocated
<1>7. Store'
  BY <1>1, <1>2, <1>4 DEF Data, Store, Allocated, Lists
<1>8. \A f \in Frame : Sound(f) => Sound(f)'
  BY <1>1, OtherTables DEF classVars
<1>. QED  BY <1>1, <1>5, <1>6, <1>7, <1>8, SameStack DEF Data

-----------------------------------------------------------------------------
(* Lists of callbacks.                                                     *)

LEMMA WithoutOk ==
    ASSUME NEW S, NEW s \in Seq(S), NEW x
    PROVE  /\ Without(s, x) \in Seq(S)
           /\ Elements(s) \ {x} \subseteq Elements(Without(s, x))
           /\ Elements(Without(s, x)) \subseteq Elements(s)
           /\ (\A i, j \in DOMAIN s : s[i] = s[j] => i = j) =>
                /\ x \notin Elements(Without(s, x))
                /\ \A i, j \in DOMAIN Without(s, x) :
                     Without(s, x)[i] = Without(s, x)[j] => i = j
<1>1. CASE x \notin Elements(s)
  BY <1>1 DEF Without
<1>2. CASE x \in Elements(s)
  <2>. DEFINE at == CHOOSE i \in DOMAIN s : s[i] = x
              t == [i \in 1..Len(s) - 1 |-> IF i < at THEN s[i] ELSE s[i + 1]]
  <2>1. DOMAIN s = 1..Len(s) /\ Len(s) \in Nat
    BY LenProperties
  <2>2. at \in DOMAIN s /\ s[at] = x
    BY <1>2 DEF Elements
  <2>3. Without(s, x) = t
    BY <1>2 DEF Without
  <2>. HIDE DEF at
  <2>4. Len(s) - 1 \in Nat /\ at \in 1..Len(s)
    BY <2>1, <2>2
  <2>5. \A i \in 1..Len(s) - 1 : i \in DOMAIN s /\ i + 1 \in DOMAIN s
    BY <2>1, <2>4
  <2>6. t \in Seq(S)
    <3>1. \A i \in DOMAIN s : s[i] \in S
      BY ElementOfSeq, <2>1
    <3>2. t \in [1..Len(s) - 1 -> S]
      BY <2>5, <3>1
    <3>. QED  BY <2>4, <3>2, SeqDef
  <2>7. /\ DOMAIN t = 1..Len(s) - 1
        /\ \A i \in DOMAIN t : t[i] = IF i < at THEN s[i] ELSE s[i + 1]
    OBVIOUS
  <2>. HIDE DEF t
  <2>8. \A y \in Elements(s) \ {x} : y \in Elements(t)
    <3>. SUFFICES ASSUME NEW i \in DOMAIN s, s[i] # x PROVE s[i] \in Elements(t)
      BY DEF Elements
    <3>1. CASE i < at
      <4>1. i \in DOMAIN t
        BY <2>1, <2>4, <2>7, <3>1
      <4>. QED  BY <2>7, <3>1, <4>1 DEF Elements
    <3>2. CASE ~(i < at)
      <4>1. i # at
        BY <2>2
      <4>2. i - 1 \in DOMAIN t /\ ~(i - 1 < at) /\ (i - 1) + 1 = i
        BY <2>1, <2>4, <2>7, <3>2, <4>1
      <4>3. t[i - 1] = s[i]
        BY <2>7, <4>2
      <4>. QED  BY <4>2, <4>3 DEF Elements
    <3>. QED  BY <3>1, <3>2
  <2>9. \A y \in Elements(t) : y \in Elements(s)
    BY <2>5, <2>7 DEF Elements
  <2>10. ASSUME \A i, j \in DOMAIN s : s[i] = s[j] => i = j
         PROVE  /\ x \notin Elements(t)
                /\ \A i, j \in DOMAIN t : t[i] = t[j] => i = j
    <3>1. \A i \in DOMAIN t : \E j \in DOMAIN s : j = (IF i < at THEN i ELSE i + 1) /\ t[i] = s[j]
      BY <2>5, <2>7
    <3>2. \A i \in DOMAIN t : t[i] # x
      <4>. SUFFICES ASSUME NEW i \in DOMAIN t, t[i] = x PROVE FALSE
        OBVIOUS
      <4>1. PICK j \in DOMAIN s : j = (IF i < at THEN i ELSE i + 1) /\ t[i] = s[j]
        BY <3>1
      <4>2. j = at
        BY <2>2, <2>10, <4>1
      <4>. QED  BY <2>4, <2>7, <4>1, <4>2
    <3>3. ASSUME NEW i \in DOMAIN t, NEW j \in DOMAIN t, t[i] = t[j]
          PROVE  i = j
      <4>1. PICK m \in DOMAIN s : m = (IF i < at THEN i ELSE i + 1) /\ t[i] = s[m]
        BY <3>1
      <4>2. PICK n \in DOMAIN s : n = (IF j < at THEN j ELSE j + 1) /\ t[j] = s[n]
        BY <3>1
      <4>3. m = n
        BY <2>10, <3>3, <4>1, <4>2
      <4>. QED  BY <2>4, <2>7, <4>1, <4>2, <4>3
    <3>. QED  BY <3>2, <3>3 DEF Elements
  <2>. QED  BY <2>3, <2>6, <2>8, <2>9, <2>10
<1>. QED  BY <1>1, <1>2

\* A list changes, and loses no callback that an emission will look at.
LEMMA ListInv ==
    ASSUME Inv, UNCHANGED <<classVars, typeVars, lifeVars, nameVars, weakVars, stack, fault>>,
           NEW o \in Allocated, NEW k \in DOMAIN calls[o], NEW list \in Seq(Nodes),
           calls' = [calls EXCEPT ![o][k] = list],
           blocked' \subseteq Nodes, used' \in 0..MaxNodes,
           NEW gone, gone \cap Coming = {},
           Elements(calls[o][k]) \ gone \subseteq Elements(list)
    PROVE  Inv'
<1>1. UNCHANGED <<made, chain, signals, code, type, slots, dead, objs, told, name, hash, notes,
                  loc, reg, stack, fault>>
  BY DEF classVars, typeVars, lifeVars, nameVars, weakVars
<1>2. Data /\ o \in Objects /\ calls \in [Objects -> Seq(Seq(Nodes))]
  BY DEF Inv, Data, TypeOK, Allocated
<1>3. PICK all \in Seq(Seq(Nodes)) : all = calls[o]
  BY <1>2
<1>4. /\ DOMAIN all = 1..Len(all) /\ k \in DOMAIN all /\ all[k] \in Seq(Nodes)
  BY <1>3, LenProperties, ElementOfSeq
<1>5. PICK new : new = [all EXCEPT ![k] = list]
  OBVIOUS
<1>6. /\ new \in Seq(Seq(Nodes)) /\ Len(new) = Len(all)
      /\ DOMAIN new = DOMAIN all
      /\ new[k] = list /\ \A i \in DOMAIN all \ {k} : new[i] = all[i]
  BY <1>4, <1>5, ExceptSeq
<1>7. calls' = [calls EXCEPT ![o] = new]
  BY <1>2, <1>3, <1>5
<1>8. /\ calls' \in [Objects -> Seq(Seq(Nodes))] /\ calls'[o] = new
      /\ \A p \in Objects \ {o} : calls'[p] = calls[p]
  BY <1>2, <1>6, <1>7
<1>9. TypeOK'
  BY <1>1, <1>2, <1>8 DEF Data, TypeOK, ClassTypeOK, Allocated
<1>10. NamesAgree' /\ ClassFact'
  BY <1>1, <1>2 DEF Data, NamesAgree, ClassFact, Allocated
<1>11. Store'
  <2>1. \A p \in Objects : Len(calls'[p]) = Len(calls[p])
    BY <1>2, <1>3, <1>6, <1>8
  <2>. QED  BY <1>1, <1>2, <2>1 DEF Data, Store, Allocated, Lists
<1>12. \A p \in Objects : DOMAIN calls'[p] = DOMAIN calls[p]
  BY <1>3, <1>6, <1>8
<1>13. \A m \in Connected \ gone : m \in Connected'
  <2>. SUFFICES ASSUME NEW p \in Allocated, NEW i \in DOMAIN calls[p],
                       NEW m \in Elements(calls[p][i]), m \notin gone
                PROVE  m \in Connected'
    BY DEF Connected
  <2>1. p \in Objects /\ p \in Allocated' /\ i \in DOMAIN calls'[p]
    BY <1>1, <1>12 DEF Allocated
  <2>2. m \in Elements(calls'[p][i])
    <3>1. CASE p = o /\ i = k
      BY <1>3, <1>6, <1>8, <3>1
    <3>2. CASE ~(p = o /\ i = k)
      BY <1>3, <1>6, <1>8, <2>1, <3>2
    <3>. QED  BY <3>1, <3>2
  <2>. QED  BY <2>1, <2>2 DEF Connected
<1>14. PICK s : s = stack /\ Held(s)
  BY DEF Inv
<1>15. ASSUME NEW f \in Elements(s)
       PROVE  Sound(f)'
  <2>1. Sound(f) /\ (f.k # "user" => f.k \in {"emit"} \cup Loops \cup Pending \cup {"free", "notify"})
    BY <1>14, SoundFrame, FrameKinds DEF Held, Loops, Pending
  <2>2. f.k = "emit" => f.next \in Coming
    BY <1>14 DEF Elements, Coming
  <2>3. f.k = "emit" => f.o \in Objects
    BY <2>1 DEF Sound, Loops, Allocated
  <2>4. f.k = "emit" => Has(f.o, f.s)'
    BY <1>1, <1>12, <2>1, <2>3 DEF Sound, Has
  <2>5. f.k = "emit" /\ f.next \in Nodes => f.next \in Connected'
    BY <1>13, <2>1, <2>2 DEF Sound
  <2>. QED  BY <1>1, <2>1, <2>4, <2>5 DEF Sound, Allocated
<1>16. Held(s)'
  BY <1>14, <1>15 DEF Held, Stacked, Shape, Frame, Elements
<1>. QED  BY <1>1, <1>9, <1>10, <1>11, <1>14, <1>16, Conclude DEF Data, Inv, NoFault

LEMMA AppendKeeps ==
    ASSUME NEW S, NEW s \in Seq(S), NEW x \in S
    PROVE  /\ Append(s, x) \in Seq(S)
           /\ Elements(Append(s, x)) = Elements(s) \cup {x}
           /\ \A i \in DOMAIN s : i \in DOMAIN Append(s, x) /\ Append(s, x)[i] = s[i]
           /\ DOMAIN Append(s, x) = DOMAIN s \cup {Len(s) + 1}
           /\ Append(s, x)[Len(s) + 1] = x
<1>. DEFINE t == Append(s, x)
<1>1. /\ t \in Seq(S) /\ Len(t) = Len(s) + 1
      /\ \A i \in 1..Len(s) : t[i] = s[i]
      /\ t[Len(s) + 1] = x
  BY AppendProperties
<1>2. DOMAIN s = 1..Len(s) /\ Len(s) \in Nat /\ DOMAIN t = 1..Len(t)
  BY <1>1, LenProperties
<1>. HIDE DEF t
<1>3. DOMAIN t = DOMAIN s \cup {Len(s) + 1}
  BY <1>1, <1>2
<1>4. Elements(t) = Elements(s) \cup {x}
  BY <1>1, <1>2, <1>3 DEF Elements
<1>. QED  BY <1>1, <1>2, <1>3, <1>4 DEF t

LEMMA ListingInv ==
    ASSUME Inv, UNCHANGED classVars, Listing, Rules = AllRules
    PROVE  Inv'
<1>1. /\ UNCHANGED <<classVars, typeVars, lifeVars, nameVars, weakVars, stack, fault>>
      /\ Keeps("keep next")
  BY DEF Listing, Keeps, AllRules
<1>2. PICK o \in Allocated, s \in Signals :
        \/ \E after \in BOOLEAN : Connect(o, s, after)
        \/ \E n \in Nodes : MayFree(o, s, {n}) /\ Disconnect(o, s, n)
        \/ Has(o, s) /\ MayFree(o, s, Elements(ListOf(o, s))) /\ DisconnectAll(o, s)
        \/ \E n \in Nodes : Block(o, s, n)
        \/ \E n \in Nodes : Unblock(o, s, n)
  BY DEF Listing
<1>3. Has(o, s)
  BY <1>2 DEF Connect, Disconnect, Block, Unblock
<1>4. Data /\ calls \in [Objects -> Seq(Seq(Nodes))] /\ blocked \subseteq Nodes
           /\ used \in 0..MaxNodes /\ MaxNodes \in Nat
  BY ObjectAssumption DEF Inv, Data, TypeOK
<1>5. PICK k, old : /\ k = code[s] + 1 /\ old = calls[o][k] /\ old = ListOf(o, s)
                    /\ k \in DOMAIN calls[o] /\ old \in Seq(Nodes)
                    /\ Elements(old) \subseteq Nodes
  <2>1. ListOf(o, s) \in Seq(Nodes)
    BY <1>3, <1>4, ListOk
  <2>2. Elements(ListOf(o, s)) \subseteq Nodes
    BY <2>1, ElementOfSeq, LenProperties DEF Elements
  <2>. QED  BY <1>3, <2>1, <2>2 DEF ListOf, Has
<1>6. ASSUME NEW after \in BOOLEAN, Connect(o, s, after)
      PROVE  Inv'
  <2>1. PICK n \in Nodes : n = used + 1 /\ n \in 0..MaxNodes
    BY <1>4, <1>6 DEF Connect, Nodes
  <2>2. PICK list \in Seq(Nodes) :
          /\ list = IF after THEN Append(old, n) ELSE <<n>> \o old
          /\ Elements(old) \subseteq Elements(list)
    <3>1. /\ Append(old, n) \in Seq(Nodes)
          /\ Elements(old) \subseteq Elements(Append(old, n))
      BY <1>5, AppendKeeps
    <3>2. /\ <<n>> \o old \in Seq(Nodes)
          /\ Elements(old) \subseteq Elements(<<n>> \o old)
      BY <1>5, Cons
    <3>. QED  BY <3>1, <3>2
  <2>3. /\ calls' = [calls EXCEPT ![o][k] = list]
        /\ UNCHANGED blocked /\ used' = n
    BY <1>5, <1>6, <2>1, <2>2 DEF Connect
  <2>4. Elements(calls[o][k]) \ {} \subseteq Elements(list) /\ {} \cap Coming = {}
    BY <1>5, <2>2
  <2>5. blocked' \subseteq Nodes /\ used' \in 0..MaxNodes
    BY <1>4, <2>1, <2>3
  <2>. QED  BY <1>1, <1>5, <2>2, <2>3, <2>4, <2>5, ListInv
<1>7. ASSUME NEW n \in Nodes, MayFree(o, s, {n}), Disconnect(o, s, n)
      PROVE  Inv'
  <2>1. PICK list \in Seq(Nodes) :
          list = Without(old, n) /\ Elements(old) \ {n} \subseteq Elements(list)
    BY <1>5, WithoutOk
  <2>2. calls' = [calls EXCEPT ![o][k] = list]
    BY <1>5, <1>7, <2>1 DEF Disconnect
  <2>3. blocked' \subseteq Nodes /\ used' \in 0..MaxNodes
    BY <1>4, <1>7 DEF Disconnect
  <2>4. {n} \cap Coming = {} /\ Elements(calls[o][k]) \ {n} \subseteq Elements(list)
    BY <1>1, <1>5, <1>7, <2>1 DEF MayFree
  <2>. QED  BY <1>1, <1>5, <2>2, <2>3, <2>4, ListInv
<1>8. CASE MayFree(o, s, Elements(ListOf(o, s))) /\ DisconnectAll(o, s)
  <2>1. calls' = [calls EXCEPT ![o][k] = <<>>]
    BY <1>5, <1>8 DEF DisconnectAll
  <2>2. blocked' \subseteq Nodes /\ used' \in 0..MaxNodes
    BY <1>4, <1>8 DEF DisconnectAll
  <2>3. /\ Elements(old) \cap Coming = {}
        /\ Elements(calls[o][k]) \ Elements(old) \subseteq Elements(<<>>)
    BY <1>1, <1>5, <1>8 DEF MayFree
  <2>4. <<>> \in Seq(Nodes)
    OBVIOUS
  <2>. QED  BY <1>1, <1>5, <2>1, <2>2, <2>3, <2>4, ListInv
<1>9. ASSUME NEW n \in Nodes, Block(o, s, n) \/ Unblock(o, s, n)
      PROVE  Inv'
  <2>1. UNCHANGED <<calls, used>> /\ blocked' \subseteq Nodes
    BY <1>4, <1>9 DEF Block, Unblock
  <2>2. calls' = [calls EXCEPT ![o][k] = old]
    <3>1. PICK all : all = calls[o]
      OBVIOUS
    <3>2. [all EXCEPT ![k] = old] = all
      <4>1. all \in Seq(Seq(Nodes)) /\ k \in DOMAIN all /\ old = all[k]
        BY <1>4, <1>5, <3>1 DEF Allocated
      <4>2. all = [i \in DOMAIN all |-> all[i]]
        BY <4>1
      <4>. QED  BY <4>1, <4>2
    <3>3. [calls EXCEPT ![o] = all] = calls
      BY <1>4, <3>1
    <3>. QED  BY <2>1, <3>1, <3>2, <3>3
  <2>3. {} \cap Coming = {} /\ Elements(calls[o][k]) \ {} \subseteq Elements(old)
    BY <1>5
  <2>4. used' \in 0..MaxNodes
    BY <1>4, <2>1
  <2>. QED  BY <1>1, <1>5, <2>1, <2>2, <2>3, <2>4, ListInv
<1>. QED  BY <1>2, <1>6, <1>7, <1>8, <1>9

-----------------------------------------------------------------------------
(* An object is made.                                                      *)

LEMMA NewInv ==
    ASSUME Inv, UNCHANGED classVars, NEW o \in Objects, NEW c \in Classes, New(o, c)
    PROVE  Inv'
<1>1. /\ UNCHANGED <<made, chain, signals, code, dead, blocked, used, name, hash, notes, loc, reg,
                     stack, fault>>
      /\ o \notin Allocated /\ type[o] = None
      /\ type' = [type EXCEPT ![o] = c] /\ slots' = [slots EXCEPT ![o] = Lists(c)]
      /\ calls' = [calls EXCEPT ![o] = [i \in 1..Lists(c) |-> <<>>]]
      /\ objs' = Append(objs, o) /\ told' = [told EXCEPT ![o] = 0]
  BY DEF New, Construct, classVars, nameVars, weakVars, Allocated
<1>2. Data /\ TypeOK
  BY DEF Inv, Data
<1>3. /\ type \in [Objects -> Classes \cup {None}] /\ slots \in [Objects -> Nat]
      /\ calls \in [Objects -> Seq(Seq(Nodes))] /\ told \in [Objects -> Nat]
      /\ objs \in Seq(Objects) /\ Elements(objs) = Allocated /\ dead \subseteq Allocated
      /\ signals[c] \in Seq(Signals) /\ None \notin Classes
  BY <1>2, EobjAssumption DEF TypeOK, ClassTypeOK
<1>4. Allocated' = Allocated \cup {o} /\ o \notin dead
  BY <1>1, <1>3 DEF Allocated
<1>5. PICK new : new = [i \in 1..Lists(c) |-> <<>>]
  OBVIOUS
<1>6. new \in Seq(Seq(Nodes)) /\ Len(new) = Lists(c) /\ Lists(c) \in Nat
  <2>1. Lists(c) \in Nat
    BY <1>3, LenProperties DEF Lists
  <2>2. <<>> \in Seq(Nodes)
    OBVIOUS
  <2>3. new \in [1..Lists(c) -> Seq(Nodes)]
    BY <1>5, <2>2
  <2>4. new \in Seq(Seq(Nodes))
    BY <2>1, <2>3, SeqDef
  <2>5. DOMAIN new = 1..Lists(c)
    BY <1>5
  <2>. QED  BY <2>1, <2>4, <2>5, LenProperties
<1>7. /\ type' \in [Objects -> Classes \cup {None}] /\ slots' \in [Objects -> Nat]
      /\ calls' \in [Objects -> Seq(Seq(Nodes))] /\ told' \in [Objects -> Nat]
      /\ type'[o] = c /\ calls'[o] = new /\ told'[o] = 0
      /\ \A p \in Objects \ {o} : /\ type'[p] = type[p] /\ calls'[p] = calls[p]
                                  /\ told'[p] = told[p]
  BY <1>1, <1>3, <1>5, <1>6
<1>8. /\ objs' \in Seq(Objects) /\ Elements(objs') = Allocated'
      /\ \A i, j \in DOMAIN objs' : objs'[i] = objs'[j] => i = j
  <2>1. /\ objs' \in Seq(Objects) /\ Elements(objs') = Elements(objs) \cup {o}
        /\ \A i \in DOMAIN objs : objs'[i] = objs[i]
        /\ DOMAIN objs' = DOMAIN objs \cup {Len(objs) + 1}
        /\ objs'[Len(objs) + 1] = o
    BY <1>1, <1>3, AppendKeeps
  <2>2. \A i, j \in DOMAIN objs : objs[i] = objs[j] => i = j
    BY <1>2 DEF Data, Store
  <2>3. \A i \in DOMAIN objs : objs[i] # o
    BY <1>1, <1>3 DEF Elements
  <2>. QED  BY <1>3, <1>4, <2>1, <2>2, <2>3
<1>9. TypeOK'
  BY <1>1, <1>2, <1>4, <1>7, <1>8 DEF TypeOK, ClassTypeOK
<1>10. NamesAgree' /\ ClassFact'
  BY <1>1, <1>2, <1>4 DEF Data, NamesAgree, ClassFact
<1>11. Store'
  <2>1. \A p \in Allocated' :
           /\ Len(calls'[p]) = Lists(type'[p])
           /\ told'[p] = IF p \in dead' THEN 1 ELSE 0
    BY <1>1, <1>2, <1>4, <1>6, <1>7 DEF Data, Store, Allocated
  <2>2. \A d : Lists(d)' = Lists(d)
    BY <1>1 DEF Lists
  <2>. QED  BY <1>1, <1>2, <1>4, <1>8, <2>1, <2>2 DEF Data, Store, Lists
<1>12. \A n \in Connected : n \in Connected'
  <2>. SUFFICES ASSUME NEW p \in Allocated, NEW i \in DOMAIN calls[p],
                       NEW n \in Elements(calls[p][i])
                PROVE  n \in Connected'
    BY DEF Connected
  <2>1. p \in Allocated' /\ calls'[p] = calls[p]
    BY <1>1, <1>4, <1>7 DEF Allocated
  <2>. QED  BY <2>1 DEF Connected
<1>13. ASSUME NEW f \in Frame, Sound(f)
       PROVE  Sound(f)'
  <2>1. f.k \notin Loops => f.o \in Allocated /\ f.o # o /\ f.o \in Objects
    BY <1>1, <1>13 DEF Sound, Allocated
  <2>2. f.k = "emit" => Has(f.o, f.s)'
    BY <1>1, <1>7, <1>13, <2>1 DEF Sound, Has, Loops
  <2>. QED  BY <1>1, <1>4, <1>12, <1>13, <2>2 DEF Sound
<1>. QED  BY <1>1, <1>9, <1>10, <1>11, <1>13, SameStack DEF Data

-----------------------------------------------------------------------------
(* Names.                                                                  *)

LEMMA NotifyingThen ==
    ASSUME NEW b, Held(b)', Data', NEW o \in Objects, o \in Allocated', fault' = "none",
           b # << >> => b[1].k # "notify",
           stack' = b \/ stack' = <<[k |-> "notify", o |-> o, at |-> 1]>> \o b
    PROVE  Inv'
<1>1. CASE stack' = b
  BY <1>1, Conclude
<1>2. CASE stack' = <<[k |-> "notify", o |-> o, at |-> 1]>> \o b
  <2>1. PICK f : f = [k |-> "notify", o |-> o, at |-> 1]
    OBVIOUS
  <2>2. f \in Frame /\ f.k = "notify" /\ f.o = o
    BY <2>1 DEF Frame
  <2>3. Sound(f)' /\ Fits(f, b)
    BY <2>2 DEF Sound, Fits, Loops, Pending
  <2>4. Held(<<f>> \o b)'
    BY <2>3, PushThen
  <2>. QED  BY <1>2, <2>1, <2>4, Conclude
<1>. QED  BY <1>1, <1>2

LEMMA NotifyingCases ==
    ASSUME NEW o, NEW b \in Seq(Frame)
    PROVE  \/ Notifying(o) \o b = b
           \/ Notifying(o) \o b = <<[k |-> "notify", o |-> o, at |-> 1]>> \o b
<1>1. CASE notes[o] = 0
  <2>1. Notifying(o) = << >>
    BY <1>1 DEF Notifying
  <2>2. << >> \o b = b
    BY ConcatEmptySeq
  <2>. QED  BY <2>1, <2>2
<1>2. CASE notes[o] # 0
  BY <1>2 DEF Notifying
<1>. QED  BY <1>1, <1>2

\* An object loses its name.
LEMMA Cleared ==
    ASSUME Data, NEW o \in Objects, name[o] # None,
           UNCHANGED <<classVars, typeVars, signalVars, lifeVars, notes, weakVars>>,
           name' = [name EXCEPT ![o] = None],
           hash' = [hash EXCEPT ![name[o]] = Without(@, o)]
    PROVE  /\ Data' /\ \A f \in Frame : Sound(f) => Sound(f)'
           /\ name'[o] = None /\ \A p \in Objects \ {o} : name'[p] = name[p]
           /\ hash'[name[o]] = << >>
<1>1. UNCHANGED <<made, chain, signals, code, type, slots, calls, blocked, used, dead, objs, told,
                  notes, loc, reg>>
  BY DEF classVars, typeVars, signalVars, lifeVars, weakVars
<1>2. /\ TypeOK /\ NamesAgree
      /\ name \in [Objects -> Names \cup {None}] /\ hash \in [Names -> Seq(Objects)]
  BY DEF Data, TypeOK
<1>3. PICK n \in Names : n = name[o]
  BY <1>2
<1>4. PICK list \in Seq(Objects) : list = hash[n]
  BY <1>2
<1>5. Elements(list) = {p \in Objects : name[p] = n} /\ Len(list) <= 1
  BY <1>2, <1>4 DEF NamesAgree
<1>6. DOMAIN list = 1..Len(list) /\ Len(list) \in Nat
  BY LenProperties
<1>7. \A i, j \in DOMAIN list : i = j
  BY <1>5, <1>6
<1>8. Elements(list) = {o}
  <2>1. o \in Elements(list)
    BY <1>3, <1>5
  <2>. QED  BY <1>7, <2>1 DEF Elements
<1>9. Without(list, o) = << >>
  <2>1. PICK w : w = Without(list, o)
    OBVIOUS
  <2>2. w \in Seq(Objects) /\ Elements(w) \subseteq {o} /\ o \notin Elements(w)
    BY <1>7, <1>8, <2>1, WithoutOk
  <2>3. w # << >> => 1 \in DOMAIN w
    BY <2>2, FirstIn
  <2>4. \A i \in DOMAIN w : w[i] \in Elements(w)
    BY DEF Elements
  <2>. QED  BY <2>1, <2>2, <2>3, <2>4
<1>10. /\ name' \in [Objects -> Names \cup {None}] /\ hash' \in [Names -> Seq(Objects)]
       /\ name'[o] = None /\ \A p \in Objects \ {o} : name'[p] = name[p]
       /\ hash'[n] = << >> /\ \A m \in Names \ {n} : hash'[m] = hash[m]
  BY <1>2, <1>3, <1>4, <1>9
<1>11. TypeOK'
  BY <1>1, <1>2, <1>10 DEF TypeOK, ClassTypeOK, Allocated
<1>12. NamesAgree'
  <2>. SUFFICES ASSUME NEW m \in Names
                PROVE  /\ \A i \in DOMAIN hash'[m] : hash'[m][i] \in Allocated' \ dead'
                       /\ Elements(hash'[m]) = {p \in Objects : name'[p] = m}
                       /\ Len(hash'[m]) <= 1
    BY DEF NamesAgree
  <2>1. CASE m = n
    <3>1. Elements(<< >>) = {} /\ Len(<< >>) <= 1
      BY DEF Elements
    <3>2. {p \in Objects : name'[p] = n} = {}
      BY <1>5, <1>8, <1>10, ObjectAssumption
    <3>. QED  BY <1>10, <2>1, <3>1, <3>2
  <2>2. CASE m # n
    <3>1. {p \in Objects : name'[p] = m} = {p \in Objects : name[p] = m}
      BY <1>3, <1>10, <2>2, ObjectAssumption
    <3>. QED  BY <1>1, <1>2, <1>10, <2>2, <3>1 DEF NamesAgree, Allocated
  <2>. QED  BY <2>1, <2>2
<1>13. Store' /\ ClassFact'
  BY <1>1 DEF Data, Store, ClassFact, Allocated, Lists
<1>14. ASSUME NEW f \in Frame, Sound(f)
       PROVE  Sound(f)'
  <2>1. f.k \in Pending => name'[f.o] = None
    <3>1. f.k \in Pending => f.o \in Objects /\ name[f.o] = None
      BY <1>14 DEF Sound, Pending, Loops, Allocated
    <3>. QED  BY <1>10, <3>1
  <2>2. f.k = "naming" => hash'[f.n] = << >>
    <3>1. f.k = "naming" => f.n \in Names /\ hash[f.n] = << >>
      BY <1>14, FrameKinds DEF Sound
    <3>. QED  BY <1>10, <3>1
  <2>. QED  BY <1>1, <1>14, <2>1, <2>2 DEF Sound, Allocated, Has, Connected
<1>. QED  BY <1>3, <1>10, <1>11, <1>12, <1>13, <1>14 DEF Data

LEMMA ClearNameThen ==
    ASSUME Data, NEW o \in Allocated, NEW b \in Seq(Frame), ClearName(o, b),
           UNCHANGED <<classVars, typeVars, signalVars, lifeVars, notes, weakVars>>
    PROVE  /\ Data' /\ \A f \in Frame : Sound(f) => Sound(f)'
           /\ o \notin dead => name'[o] = None
           /\ \A p \in Objects \ {o} : name'[p] = name[p]
           /\ name[o] # None /\ o \notin dead => hash'[name[o]] = << >>
           /\ stack' = b \/ stack' = <<[k |-> "notify", o |-> o, at |-> 1]>> \o b
<1>1. o \in Objects
  BY DEF Allocated
<1>2. CASE o \in dead \/ name[o] = None
  <2>1. UNCHANGED dataVars /\ stack' = b
    BY <1>2 DEF ClearName, dataVars, nameVars
  <2>. QED  BY <1>2, <2>1, SameData DEF dataVars, nameVars
<1>3. CASE o \notin dead /\ name[o] # None
  <2>1. /\ name' = [name EXCEPT ![o] = None]
        /\ hash' = [hash EXCEPT ![name[o]] = Without(@, o)]
        /\ stack' = Notifying(o) \o b
    BY <1>3 DEF ClearName
  <2>2. /\ Data' /\ \A f \in Frame : Sound(f) => Sound(f)'
        /\ name'[o] = None /\ \A p \in Objects \ {o} : name'[p] = name[p]
        /\ hash'[name[o]] = << >>
    BY <1>1, <1>3, <2>1, Cleared
  <2>. QED  BY <2>1, <2>2, NotifyingCases
<1>. QED  BY <1>2, <1>3

\* An object takes a name that no other has, and that none waits for.
LEMMA Took ==
    ASSUME Data, NEW o \in Allocated \ dead, NEW n \in Names,
           name[o] = None, hash[n] = << >>,
           UNCHANGED <<classVars, typeVars, signalVars, lifeVars, notes, weakVars>>,
           name' = [name EXCEPT ![o] = n],
           hash' = [hash EXCEPT ![n] = <<o>> \o @]
    PROVE  /\ Data'
           /\ \A f \in Frame : Sound(f) /\ f.k \notin Pending => Sound(f)'
<1>1. UNCHANGED <<made, chain, signals, code, type, slots, calls, blocked, used, dead, objs, told,
                  notes, loc, reg>>
  BY DEF classVars, typeVars, signalVars, lifeVars, weakVars
<1>2. /\ TypeOK /\ NamesAgree /\ o \in Objects
      /\ name \in [Objects -> Names \cup {None}] /\ hash \in [Names -> Seq(Objects)]
  BY DEF Data, TypeOK, Allocated
<1>3. PICK list : list = <<o>> \o << >>
  OBVIOUS
<1>4. /\ list \in Seq(Objects) /\ Len(list) = 1 /\ Elements(list) = {o}
      /\ \A i \in DOMAIN list : list[i] = o
  <2>1. list \in Seq(Objects) /\ Len(list) = 1 /\ Elements(list) = {o}
    BY <1>2, <1>3, Alone
  <2>. QED  BY <2>1 DEF Elements
<1>5. /\ name' \in [Objects -> Names \cup {None}] /\ hash' \in [Names -> Seq(Objects)]
      /\ name'[o] = n /\ \A p \in Objects \ {o} : name'[p] = name[p]
      /\ hash'[n] = list /\ \A m \in Names \ {n} : hash'[m] = hash[m]
  BY <1>2, <1>3, <1>4
<1>6. TypeOK'
  BY <1>1, <1>2, <1>5 DEF TypeOK, ClassTypeOK, Allocated
<1>7. NamesAgree'
  <2>. SUFFICES ASSUME NEW m \in Names
                PROVE  /\ \A i \in DOMAIN hash'[m] : hash'[m][i] \in Allocated' \ dead'
                       /\ Elements(hash'[m]) = {p \in Objects : name'[p] = m}
                       /\ Len(hash'[m]) <= 1
    BY DEF NamesAgree
  <2>1. Elements(hash[m]) = {p \in Objects : name[p] = m}
    BY <1>2 DEF NamesAgree
  <2>2. CASE m = n
    <3>1. {p \in Objects : name[p] = n} = {}
      BY <2>1, <2>2 DEF Elements
    <3>2. {p \in Objects : name'[p] = n} = {o}
      BY <1>2, <1>5, <3>1
    <3>. QED  BY <1>1, <1>4, <1>5, <2>2, <3>2 DEF Allocated
  <2>3. CASE m # n
    <3>1. {p \in Objects : name'[p] = m} = {p \in Objects : name[p] = m}
      BY <1>5, <2>3, ObjectAssumption
    <3>. QED  BY <1>1, <1>2, <1>5, <2>3, <3>1 DEF NamesAgree, Allocated
  <2>. QED  BY <2>2, <2>3
<1>8. Store' /\ ClassFact'
  BY <1>1 DEF Data, Store, ClassFact, Allocated, Lists
<1>9. ASSUME NEW f \in Frame, Sound(f), f.k \notin Pending
      PROVE  Sound(f)'
  BY <1>1, <1>9 DEF Sound, Allocated, Has, Connected, Pending
<1>. QED  BY <1>6, <1>7, <1>8, <1>9 DEF Data

LEMMA NamingEndsInv ==
    ASSUME Inv, fault = "none", UNCHANGED classVars, NamingEnds
    PROVE  Inv'
<1>1. UNCHANGED <<typeVars, signalVars, lifeVars, notes, weakVars>> /\ ~At("user") /\ Data
  BY DEF NamingEnds, At, Inv
<1>2. PICK f \in Frame : \E r : /\ stack = <<f>> \o r /\ Top = f /\ Rest = r
                                /\ Sound(f) /\ Fits(f, r) /\ Held(r)
  BY <1>1, LibraryTop
<1>3. PICK r : Top = f /\ Rest = r /\ Sound(f) /\ Fits(f, r) /\ Held(r)
  BY <1>2
<1>4. f.k = "naming" /\ f.o \in Objects /\ f.n \in Names
  BY <1>3, FrameKinds DEF NamingEnds, At
<1>5. f.o \in Allocated \ dead /\ name[f.o] = None /\ hash[f.n] = << >>
  BY <1>3, <1>4 DEF Sound, Loops, Pending
<1>6. fault' = "none"
  BY <1>1, <1>3, <1>5, Exists DEF NamingEnds
<1>7. /\ name' = [name EXCEPT ![f.o] = f.n]
      /\ hash' = [hash EXCEPT ![f.n] = <<f.o>> \o @]
      /\ stack' = Notifying(f.o) \o r
  BY <1>3 DEF NamingEnds, TakeName
<1>8. Data' /\ \A x \in Frame : Sound(x) /\ x.k \notin Pending => Sound(x)'
  <2>1. PICK o \in Allocated \ dead, n \in Names : o = f.o /\ n = f.n
    BY <1>4, <1>5
  <2>. QED  BY <1>1, <1>5, <1>7, <2>1, Took
<1>9. Held(r)'
  <2>1. \A x \in Elements(r) : x.k \notin Pending
    BY <1>3, <1>4 DEF Fits, Pending
  <2>2. \A x \in Elements(r) : Sound(x)'
    BY <1>3, <1>8, <2>1, SoundFrame DEF Held
  <2>. QED  BY <1>3, <2>2 DEF Held, Stacked, Shape, Frame, Elements
<1>10. r \in Seq(Frame) /\ (r # << >> => r[1].k # "notify")
  BY <1>3, <1>4 DEF Held, Stacked, Fits
<1>11. f.o \in Allocated'
  BY <1>1, <1>5 DEF typeVars, Allocated
<1>. QED  BY <1>4, <1>6, <1>7, <1>8, <1>9, <1>10, <1>11, NotifyingCases, NotifyingThen

LEMMA PendingFrame ==
    ASSUME Data, NEW o \in Allocated
    PROVE  /\ Destroying(o) \in Frame /\ Destroying(o).k = "destroy"
           /\ o \notin dead' /\ o \in Allocated' /\ name'[o] = None => Sound(Destroying(o))'
           /\ \A n \in Names : Naming(o, n) \in Frame /\ Naming(o, n).k = "naming"
           /\ \A n \in Names : o \notin dead' /\ o \in Allocated' /\ name'[o] = None /\ hash'[n] = << >> =>
                Sound(Naming(o, n))'
BY DEF Destroying, Naming, Frame, Sound, Loops, Pending, Allocated

LEMMA NameSetInv ==
    ASSUME Inv, fault = "none", At("user"), UNCHANGED classVars, Rules = AllRules,
           NEW o \in Objects, NEW n \in Names \cup {None}, MayName(o, n), NameSet(o, n)
    PROVE  Inv'
<1>1. /\ UNCHANGED <<typeVars, signalVars, lifeVars, notes, weakVars>>
      /\ o \in Allocated /\ o \notin dead
  BY DEF NameSet
<1>2. Data /\ None \notin Names /\ None \notin Objects
  BY ObjectAssumption DEF Inv
<1>3. n # None => name[o] = None /\ ~Within("name")
  BY DEF MayName, Keeps, AllRules
<1>4. PICK s : /\ s = stack /\ Held(s)
               /\ ~Within("name") => /\ \A x \in Elements(s) : x.k \notin Pending
                                     /\ \A f \in Frame : f.k \in Pending => Fits(f, s)
  BY UserTop
<1>5. s \in Seq(Frame) /\ (s # << >> => s[1].k = "user")
  BY <1>4 DEF Held, Stacked, At, Top
<1>6. Allocated' = Allocated /\ dead' = dead
  BY <1>1 DEF typeVars, lifeVars, Allocated
<1>7. CASE n = None
  <2>1. ClearName(o, s) /\ fault' = "none"
    BY <1>4, <1>7 DEF NameSet
  <2>2. /\ Data' /\ \A f \in Frame : Sound(f) => Sound(f)'
        /\ stack' = s \/ stack' = <<[k |-> "notify", o |-> o, at |-> 1]>> \o s
    BY <1>1, <1>2, <1>5, <2>1, ClearNameThen
  <2>3. Held(s)'
    BY <1>4, <2>2, HeldThen
  <2>. QED  BY <1>1, <1>5, <1>6, <2>1, <2>2, <2>3, NotifyingThen
<1>8. CASE n # None /\ Head_(hash[n]) = None
  <2>1. n \in Names /\ hash[n] \in Seq(Objects)
    BY <1>2, <1>8 DEF Data, TypeOK
  <2>2. hash[n] = << >>
    <3>1. hash[n] # << >> => 1 \in DOMAIN hash[n]
      BY <2>1, FirstIn
    <3>. QED  BY <1>2, <1>8, <2>1, <3>1, ElementOfSeq, LenProperties DEF Head_
  <2>3. TakeName(o, n, s) /\ fault' = "none"
    BY <1>4, <1>8 DEF NameSet
  <2>4. Data' /\ \A f \in Frame : Sound(f) /\ f.k \notin Pending => Sound(f)'
    BY <1>1, <1>2, <1>3, <1>8, <2>1, <2>2, <2>3, Took DEF TakeName
  <2>5. Held(s)'
    <3>1. \A x \in Elements(s) : Sound(x)'
      BY <1>3, <1>4, <1>8, <2>4, SoundFrame DEF Held
    <3>. QED  BY <1>4, <3>1 DEF Held, Stacked, Shape, Frame, Elements
  <2>6. stack' = Notifying(o) \o s
    BY <2>3 DEF TakeName
  <2>. QED  BY <1>1, <1>5, <1>6, <2>3, <2>4, <2>5, <2>6, NotifyingCases, NotifyingThen
<1>9. CASE n # None /\ Head_(hash[n]) # None
  <2>1. n \in Names /\ hash[n] \in Seq(Objects) /\ hash[n] # << >>
    BY <1>2, <1>9 DEF Data, TypeOK, Head_
  <2>2. PICK other : other = Head_(hash[n]) /\ other = hash[n][1] /\ 1 \in DOMAIN hash[n]
    BY <2>1, FirstIn DEF Head_
  <2>3. /\ other \in Allocated \ dead /\ other \in Objects /\ name[other] = n /\ other # o
        /\ Touches(other) = "none" /\ ~Gone(other)
    <3>1. /\ other \in Allocated \ dead
          /\ other \in {p \in Objects : name[p] = n}
      BY <1>2, <2>1, <2>2 DEF Data, NamesAgree, Elements
    <3>. QED  BY <1>2, <1>3, <1>9, <3>1, Exists
  <2>4. PICK f : f = Naming(o, n)
    OBVIOUS
  <2>5. fault' = "none" /\ ClearName(other, <<f>> \o s)
    BY <1>4, <1>9, <2>2, <2>3, <2>4 DEF NameSet
  <2>6. f \in Frame /\ f.k = "naming" /\ f.o = o
    BY <1>1, <1>2, <2>1, <2>4, PendingFrame DEF Naming
  <2>7. <<f>> \o s \in Seq(Frame) /\ (<<f>> \o s)[1] = f
    BY <1>5, <2>6, Cons
  <2>8. /\ Data' /\ \A x \in Frame : Sound(x) => Sound(x)'
        /\ name'[o] = name[o] /\ hash'[name[other]] = << >>
        /\ \/ stack' = <<f>> \o s
           \/ stack' = <<[k |-> "notify", o |-> other, at |-> 1]>> \o (<<f>> \o s)
    BY <1>1, <1>2, <1>9, <2>3, <2>5, <2>7, ClearNameThen
  <2>9. Sound(f)'
    BY <1>1, <1>2, <1>3, <1>6, <1>9, <2>1, <2>3, <2>4, <2>8, PendingFrame
  <2>10. Held(<<f>> \o s)'
    <3>1. Held(s)'
      BY <1>4, <2>8, HeldThen
    <3>2. Fits(f, s)
      BY <1>3, <1>4, <1>9, <2>6 DEF Pending
    <3>. QED  BY <2>9, <3>1, <3>2, PushThen
  <2>. QED  BY <1>6, <2>3, <2>5, <2>6, <2>7, <2>8, <2>10, NotifyingThen
<1>. QED  BY <1>7, <1>8, <1>9

-----------------------------------------------------------------------------
(* Destruction.                                                            *)

\* An object loses its name and will be marked.
LEMMA DestroyBegins ==
    ASSUME Inv, fault' = "none", NEW o \in Allocated \ dead, NEW s, s = stack,
           Fits(Destroying(o), s), ClearName(o, <<Destroying(o)>> \o s),
           UNCHANGED <<classVars, typeVars, signalVars, lifeVars, notes, weakVars>>
    PROVE  Inv'
<1>1. Data /\ Held(s) /\ s \in Seq(Frame)
  BY DEF Inv, Held, Stacked
<1>2. PICK f \in Frame : f = Destroying(o) /\ f.k = "destroy"
  BY <1>1, PendingFrame
<1>3. <<f>> \o s \in Seq(Frame) /\ (<<f>> \o s)[1] = f
  BY <1>1, <1>2, Cons
<1>4. /\ Data' /\ \A x \in Frame : Sound(x) => Sound(x)'
      /\ name'[o] = None
      /\ \/ stack' = <<f>> \o s
         \/ stack' = <<[k |-> "notify", o |-> o, at |-> 1]>> \o (<<f>> \o s)
  BY <1>1, <1>2, <1>3, ClearNameThen
<1>5. o \in Allocated' /\ o \notin dead' /\ o \in Objects
  BY DEF typeVars, lifeVars, Allocated
<1>6. Sound(f)'
  BY <1>1, <1>2, <1>4, <1>5, PendingFrame
<1>7. Held(<<f>> \o s)'
  BY <1>1, <1>2, <1>4, <1>6, HeldThen, PushThen
<1>. QED  BY <1>2, <1>3, <1>4, <1>5, <1>7, NotifyingThen

LEMMA DestroyInv ==
    ASSUME Inv, fault = "none", At("user"), UNCHANGED classVars, Rules = AllRules,
           NEW o \in Objects, MayDestroy, Destroy(o)
    PROVE  Inv'
<1>1. ~Within("name")
  BY DEF MayDestroy, Keeps, AllRules
<1>2. o \in Allocated \ dead
  BY DEF Destroy
<1>3. PICK s : s = stack /\ \A f \in Frame : f.k \in Pending => Fits(f, s)
  BY <1>1, UserTop
<1>4. Fits(Destroying(o), s)
  BY <1>2, <1>3, PendingFrame DEF Pending, Inv
<1>. QED  BY <1>2, <1>3, <1>4, DestroyBegins DEF Destroy

LEMMA FreeDestroysInv ==
    ASSUME Inv, fault = "none", UNCHANGED classVars, FreeDestroys
    PROVE  Inv'
<1>1. ~At("user") /\ Data
  BY DEF FreeDestroys, At, Inv
<1>2. PICK f \in Frame : \E r : /\ stack = <<f>> \o r /\ Top = f /\ Rest = r
                                /\ Sound(f) /\ Fits(f, r) /\ Held(r)
                                /\ Elements(stack) = {f} \cup Elements(r)
  BY <1>1, LibraryTop
<1>3. PICK r : /\ stack = <<f>> \o r /\ Top = f /\ Sound(f) /\ Fits(f, r) /\ Held(r)
               /\ Elements(stack) = {f} \cup Elements(r)
  BY <1>2
<1>4. f.k = "free"
  BY <1>3 DEF FreeDestroys, At
<1>5. f.o \in Allocated \ dead
  BY <1>3, <1>4 DEF FreeDestroys, Sound, Loops
<1>6. fault' = "none"
  BY <1>1, <1>3, <1>5, Exists DEF FreeDestroys
<1>7. PICK s : s = stack
  OBVIOUS
<1>8. s \in Seq(Frame) /\ s[1] = f /\ r \in Seq(Frame)
  <2>1. r \in Seq(Frame)
    BY <1>3 DEF Held, Stacked
  <2>. QED  BY <1>3, <1>7, <2>1, Cons
<1>9. \A x \in Elements(s) : x.k \notin Pending
  <2>1. Len(r) = 1 /\ r[1].k \in Loops /\ DOMAIN r = 1..Len(r)
    BY <1>3, <1>4, <1>8, LenProperties DEF Fits
  <2>2. \A x \in Elements(r) : x.k \in Loops
    BY <2>1 DEF Elements
  <2>. QED  BY <1>3, <1>4, <1>7, <2>2 DEF Loops, Pending
<1>10. PICK g \in Frame : g = Destroying(f.o) /\ g.k = "destroy"
  BY <1>1, <1>5, PendingFrame
<1>11. Fits(g, s)
  BY <1>4, <1>8, <1>9, <1>10 DEF Fits, Loops, Pending
<1>12. ClearName(f.o, <<g>> \o s)
  BY <1>3, <1>7, <1>10 DEF FreeDestroys
<1>. QED  BY <1>5, <1>6, <1>7, <1>10, <1>11, <1>12, DestroyBegins DEF FreeDestroys

\* The emissions that lose their pointer stay where they are.
LEMMA SeveredOk ==
    ASSUME NEW s, Stacked(s), NEW o
    PROVE  /\ Stacked(Severed(s, o))
           /\ Severed(s, o) # << >> => s # << >> /\ Severed(s, o)[1].k = s[1].k
           /\ \A g \in Elements(Severed(s, o)) : \E x \in Elements(s) :
                \/ g = x /\ ~(x.k = "emit" /\ x.o = o /\ x.reg)
                \/ x.k = "emit" /\ x.o = o /\ x.reg /\ g = [x EXCEPT !.ptr = FALSE]
<1>. DEFINE t == Severed(s, o)
<1>1. /\ s \in Seq(Frame) /\ DOMAIN s = 1..Len(s) /\ Len(s) \in Nat
      /\ \A i \in DOMAIN s : s[i] \in Frame
  BY LenProperties, ElementOfSeq DEF Stacked
<1>2. /\ DOMAIN t = DOMAIN s
      /\ \A i \in DOMAIN s :
           t[i] = IF s[i].k = "emit" /\ s[i].o = o /\ s[i].reg
                  THEN [s[i] EXCEPT !.ptr = FALSE] ELSE s[i]
  BY DEF Severed
<1>3. t = [i \in 1..Len(s) |-> t[i]]
  BY <1>1 DEF Severed
<1>. HIDE DEF t
<1>4. \A i \in DOMAIN s : t[i] \in Frame /\ Alike(s[i], t[i])
  <2>. SUFFICES ASSUME NEW i \in DOMAIN s PROVE t[i] \in Frame /\ Alike(s[i], t[i])
    OBVIOUS
  <2>1. CASE s[i].k = "emit" /\ s[i].o = o /\ s[i].reg
    <3>1. s[i] \in EmitFrame /\ t[i] = [s[i] EXCEPT !.ptr = FALSE]
      BY <1>1, <1>2, <2>1, FrameKinds DEF EmitFrame
    <3>2. /\ t[i] \in EmitFrame /\ t[i].k = "emit" /\ t[i].o = s[i].o /\ t[i].s = s[i].s
      BY <2>1, <3>1 DEF EmitFrame
    <3>3. t[i] \in Frame
      BY <3>2 DEF EmitFrame, Frame
    <3>. QED  BY <2>1, <3>2, <3>3 DEF Alike
  <2>2. CASE ~(s[i].k = "emit" /\ s[i].o = o /\ s[i].reg)
    BY <1>1, <1>2, <2>2 DEF Alike
  <2>. QED  BY <2>1, <2>2
<1>5. t \in Seq(Frame) /\ Len(t) = Len(s)
  <2>1. t \in [1..Len(s) -> Frame]
    BY <1>1, <1>3, <1>4
  <2>2. t \in Seq(Frame)
    BY <1>1, <2>1, SeqDef
  <2>. QED  BY <1>1, <1>2, <2>2, LenProperties
<1>6. Stacked(t)
  BY <1>4, <1>5, SameShape
<1>7. t # << >> => s # << >> /\ t[1].k = s[1].k
  <2>1. t # << >> => 1 \in DOMAIN t
    BY <1>5, FirstIn
  <2>2. s = << >> => DOMAIN s = {}
    OBVIOUS
  <2>. QED  BY <1>2, <1>4, <2>1, <2>2 DEF Alike
<1>8. \A g \in Elements(t) : \E x \in Elements(s) :
        \/ g = x /\ ~(x.k = "emit" /\ x.o = o /\ x.reg)
        \/ x.k = "emit" /\ x.o = o /\ x.reg /\ g = [x EXCEPT !.ptr = FALSE]
  <2>. SUFFICES ASSUME NEW i \in DOMAIN t
                PROVE  \E x \in Elements(s) :
                         \/ t[i] = x /\ ~(x.k = "emit" /\ x.o = o /\ x.reg)
                         \/ /\ x.k = "emit" /\ x.o = o /\ x.reg
                            /\ t[i] = [x EXCEPT !.ptr = FALSE]
    BY DEF Elements
  <2>1. s[i] \in Elements(s)
    BY <1>2 DEF Elements
  <2>. QED  BY <1>2, <2>1
<1>. QED  BY <1>6, <1>7, <1>8 DEF t

LEMMA DestroyEndsInv ==
    ASSUME Inv, fault = "none", UNCHANGED classVars, DestroyEnds
    PROVE  Inv'
<1>1. ~At("user") /\ Data
  BY DEF DestroyEnds, At, Inv
<1>2. PICK f \in Frame : \E r : /\ stack = <<f>> \o r /\ Top = f /\ Rest = r
                                /\ Sound(f) /\ Fits(f, r) /\ Held(r)
  BY <1>1, LibraryTop
<1>3. PICK r : Top = f /\ Rest = r /\ Sound(f) /\ Fits(f, r) /\ Held(r)
  BY <1>2
<1>4. PICK o \in Objects : o = f.o /\ f.k = "destroy" /\ o \in Allocated \ dead /\ name[o] = None
  BY <1>3 DEF DestroyEnds, At, Sound, Loops, Pending, Allocated
<1>5. PICK e : e = [Emission(o, Destroyed) EXCEPT !.reg = FALSE, !.late = TRUE]
  OBVIOUS
<1>6. PICK q : q = Severed(r, o)
  OBVIOUS
<1>7. /\ UNCHANGED <<made, chain, signals, code, type, slots, calls, blocked, used, objs,
                     name, hash, notes>>
      /\ loc' = [l \in Locations |-> IF l \in reg[o] THEN None ELSE loc[l]]
      /\ reg' = [reg EXCEPT ![o] = {}]
      /\ dead' = dead \cup {o} /\ told' = [told EXCEPT ![o] = @ + 1]
      /\ stack' = <<e>> \o q
  BY <1>3, <1>4, <1>5, <1>6 DEF DestroyEnds, ClearPointers, classVars, typeVars, signalVars, nameVars
<1>8. fault' = "none"
  BY <1>1, <1>3, <1>4, Exists DEF DestroyEnds
<1>9. /\ TypeOK /\ NamesAgree /\ Store /\ ClassFact
      /\ loc \in [Locations -> Objects \cup {None}] /\ reg \in [Objects -> SUBSET Locations]
      /\ told \in [Objects -> Nat] /\ dead \subseteq Allocated
  BY <1>1 DEF Data, TypeOK
<1>10. TypeOK'
  <2>1. /\ loc' \in [Locations -> Objects \cup {None}] /\ reg' \in [Objects -> SUBSET Locations]
        /\ told' \in [Objects -> Nat] /\ dead' \subseteq Allocated
    BY <1>4, <1>7, <1>9
  <2>. QED  BY <1>7, <1>9, <2>1 DEF TypeOK, ClassTypeOK, Allocated
<1>11. NamesAgree'
  <2>1. \A n \in Names : \A i \in DOMAIN hash[n] : hash[n][i] # o
    BY <1>4, <1>9, ObjectAssumption DEF NamesAgree, Elements
  <2>. QED  BY <1>7, <1>9, <2>1 DEF NamesAgree, Allocated
<1>12. Store'
  <2>1. \A p \in Allocated : told'[p] = IF p \in dead' THEN 1 ELSE 0
    BY <1>4, <1>7, <1>9 DEF Store, Allocated
  <2>2. ASSUME NEW l \in Locations, loc'[l] # None
        PROVE  loc'[l] \in Allocated \ dead' /\ l \in reg'[loc'[l]]
    <3>1. l \notin reg[o] /\ loc'[l] = loc[l] /\ loc[l] \in Allocated \ dead /\ l \in reg[loc[l]]
      BY <1>7, <1>9, <2>2 DEF Store
    <3>. QED  BY <1>7, <1>9, <3>1 DEF Allocated
  <2>. QED  BY <1>7, <1>9, <2>1, <2>2 DEF Store, Allocated, Lists
<1>13. ClassFact'
  BY <1>7, <1>9 DEF ClassFact
<1>14. Stacked(r) /\ \A x \in Elements(r) : Sound(x) /\ x.k \notin Pending
  BY <1>3, <1>4 DEF Held, Fits, Pending
<1>15. /\ Stacked(q)
       /\ q # << >> => r # << >> /\ q[1].k = r[1].k
       /\ \A g \in Elements(q) : \E x \in Elements(r) :
            \/ g = x /\ ~(x.k = "emit" /\ x.o = o /\ x.reg)
            \/ x.k = "emit" /\ x.o = o /\ x.reg /\ g = [x EXCEPT !.ptr = FALSE]
  BY <1>6, <1>14, SeveredOk
<1>16. ASSUME NEW g \in Elements(q)
       PROVE  Sound(g)' /\ (g.k = "free" /\ g.at > 0 => g.o # o)
  <2>1. PICK x \in Elements(r) :
          \/ g = x /\ ~(x.k = "emit" /\ x.o = o /\ x.reg)
          \/ x.k = "emit" /\ x.o = o /\ x.reg /\ g = [x EXCEPT !.ptr = FALSE]
    BY <1>15
  <2>2. Sound(x) /\ x.k \notin Pending
    BY <1>14
  <2>3. CASE g = x /\ ~(x.k = "emit" /\ x.o = o /\ x.reg)
    BY <1>4, <1>7, <2>2, <2>3 DEF Sound, Allocated, Has, Connected, Pending
  <2>4. CASE x.k = "emit" /\ x.o = o /\ x.reg /\ g = [x EXCEPT !.ptr = FALSE]
    <3>1. x \in EmitFrame
      BY <2>2, <2>4, SoundFrame, EmitKind
    <3>2. /\ g \in EmitFrame /\ g.k = "emit" /\ g.o = x.o /\ g.s = x.s /\ ~g.ptr
          /\ g.reg = x.reg /\ g.late = x.late /\ g.next = x.next
      BY <2>4, <3>1 DEF EmitFrame
    <3>3. g \in Frame
      BY <3>2 DEF EmitFrame, Frame
    <3>. QED  BY <1>4, <1>7, <2>2, <2>4, <3>2, <3>3
              DEF Sound, Allocated, Has, Connected, Pending
  <2>. QED  BY <2>1, <2>3, <2>4
<1>17. Held(q)'
  <2>1. Stacked(q)
    BY <1>15
  <2>. QED  BY <1>16, <2>1 DEF Held, Stacked, Shape, Frame, Elements
<1>18. Destroyed \in Signals /\ Has(o, Destroyed) /\ Unread \notin Nodes
  BY <1>1, <1>4, HasDestroyed, ObjectAssumption DEF Unread, Nodes
<1>19. /\ e \in EmitFrame /\ e.k = "emit" /\ e.o = o /\ e.s = Destroyed /\ e.next = Unread
       /\ ~e.reg /\ e.late
  BY <1>5, <1>18 DEF Emission, EmitFrame
<1>20. e \in Frame
  BY <1>19 DEF EmitFrame, Frame
<1>21. Sound(e)'
  BY <1>4, <1>7, <1>18, <1>19, <1>20 DEF Sound, Allocated, Has, Pending
<1>22. Fits(e, q)
  <2>1. q # << >> => q[1].k \notin Pending /\ q[1].k # "notify"
    <3>1. r # << >> => r[1].k \notin Pending /\ r[1].k # "notify"
      BY <1>3, <1>4 DEF Fits
    <3>2. q # << >> => r # << >> /\ q[1].k = r[1].k
      BY <1>15
    <3>. QED  BY <3>1, <3>2
  <2>. QED  BY <1>16, <1>19, <2>1 DEF Fits, Loops, Pending
<1>23. Held(<<e>> \o q)'
  BY <1>17, <1>21, <1>22, PushThen
<1>. QED  BY <1>7, <1>8, <1>10, <1>11, <1>12, <1>13, <1>23, Conclude DEF Data

LEMMA FreeEndsInv ==
    ASSUME Inv, fault = "none", UNCHANGED classVars, FreeEnds
    PROVE  Inv'
<1>1. ~At("user") /\ Data
  BY DEF FreeEnds, At, Inv
<1>2. PICK f \in Frame : \E r : /\ stack = <<f>> \o r /\ Top = f /\ Rest = r
                                /\ Sound(f) /\ Fits(f, r) /\ Held(r)
  BY <1>1, LibraryTop
<1>3. PICK r : Top = f /\ Rest = r /\ Sound(f) /\ Fits(f, r) /\ Held(r)
  BY <1>2
<1>4. PICK o \in Objects : o = f.o /\ f.k = "free" /\ o \in Allocated /\ o \in dead
  BY <1>3 DEF FreeEnds, At, Sound, Loops, Allocated
<1>5. /\ UNCHANGED <<made, chain, signals, code, used, hash, loc, told>>
      /\ type' = [type EXCEPT ![o] = None] /\ slots' = [slots EXCEPT ![o] = 0]
      /\ calls' = [calls EXCEPT ![o] = <<>>]
      /\ blocked' \subseteq blocked
      /\ name' = [name EXCEPT ![o] = None] /\ notes' = [notes EXCEPT ![o] = 0]
      /\ reg' = [reg EXCEPT ![o] = {}] /\ dead' = dead \ {o} /\ objs' = Without(objs, o)
      /\ stack' = r /\ fault' = "none"
  BY <1>3, <1>4 DEF FreeEnds, Deallocate, classVars
<1>6. /\ TypeOK /\ ClassTypeOK /\ NamesAgree /\ Store /\ ClassFact
      /\ type \in [Objects -> Classes \cup {None}] /\ slots \in [Objects -> Nat]
      /\ calls \in [Objects -> Seq(Seq(Nodes))] /\ told \in [Objects -> Nat]
      /\ objs \in Seq(Objects) /\ Elements(objs) = Allocated /\ dead \subseteq Allocated
      /\ name \in [Objects -> Names \cup {None}] /\ notes \in [Objects -> 0..MaxNotes]
      /\ reg \in [Objects -> SUBSET Locations] /\ MaxNotes \in Nat /\ None \notin Names
  BY <1>1, ObjectAssumption DEF Data, TypeOK, ClassTypeOK
<1>7. Allocated' = Allocated \ {o} /\ \A p \in Objects \ {o} : type'[p] = type[p]
  BY <1>5, <1>6 DEF Allocated
<1>8. name' = name
  <2>1. name[o] = None
    <3>1. ASSUME name[o] \in Names PROVE FALSE
      <4>1. o \in Elements(hash[name[o]])
        BY <1>4, <1>6, <3>1 DEF NamesAgree
      <4>. QED  BY <1>4, <1>6, <3>1, <4>1 DEF NamesAgree, Elements
    <3>. QED  BY <1>6, <3>1
  <2>. QED  BY <1>5, <1>6, <2>1
<1>9. /\ objs' \in Seq(Objects) /\ Elements(objs') = Allocated'
      /\ \A i, j \in DOMAIN objs' : objs'[i] = objs'[j] => i = j
  <2>1. \A i, j \in DOMAIN objs : objs[i] = objs[j] => i = j
    BY <1>6 DEF Store
  <2>2. PICK list \in Seq(Objects) : list = objs
    BY <1>6
  <2>3. /\ Without(list, o) \in Seq(Objects)
        /\ Elements(list) \ {o} \subseteq Elements(Without(list, o))
        /\ Elements(Without(list, o)) \subseteq Elements(list)
        /\ o \notin Elements(Without(list, o))
        /\ \A i, j \in DOMAIN Without(list, o) :
             Without(list, o)[i] = Without(list, o)[j] => i = j
    BY <2>1, <2>2, WithoutOk
  <2>4. objs' = Without(list, o)
    BY <1>5, <2>2
  <2>. QED  BY <1>6, <1>7, <2>2, <2>3, <2>4
<1>10. TypeOK'
  <2>1. /\ type' \in [Objects -> Classes \cup {None}] /\ slots' \in [Objects -> Nat]
    BY <1>5, <1>6
  <2>2. calls' \in [Objects -> Seq(Seq(Nodes))]
    <3>1. <<>> \in Seq(Seq(Nodes))
      OBVIOUS
    <3>. QED  BY <1>5, <1>6, <3>1
  <2>3. /\ notes' \in [Objects -> 0..MaxNotes] /\ reg' \in [Objects -> SUBSET Locations]
        /\ dead' \subseteq Allocated'
    BY <1>5, <1>6, <1>7
  <2>4. ClassTypeOK'
    BY <1>5, <1>6, <2>1 DEF ClassTypeOK
  <2>5. hash' \in [Names -> Seq(Objects)] /\ loc' \in [Locations -> Objects \cup {None}]
        /\ blocked' \subseteq Nodes /\ used' \in 0..MaxNodes /\ told' \in [Objects -> Nat]
        /\ name' \in [Objects -> Names \cup {None}]
    BY <1>5, <1>6, <1>8 DEF TypeOK
  <2>. QED  BY <1>9, <2>2, <2>3, <2>4, <2>5 DEF TypeOK
<1>11. NamesAgree'
  BY <1>4, <1>5, <1>6, <1>7, <1>8 DEF NamesAgree
<1>12. Store'
  <2>1. \A p \in Allocated' :
          /\ Len(calls'[p]) = Lists(type'[p])
          /\ told'[p] = IF p \in dead' THEN 1 ELSE 0
    BY <1>5, <1>6, <1>7 DEF Store, Allocated
  <2>2. ASSUME NEW l \in Locations, loc'[l] # None
        PROVE  loc'[l] \in Allocated' \ dead' /\ l \in reg'[loc'[l]]
    <3>1. loc[l] \in Allocated \ dead /\ l \in reg[loc[l]] /\ loc[l] # o
      BY <1>4, <1>5, <1>6, <2>2 DEF Store
    <3>. QED  BY <1>5, <1>6, <1>7, <3>1 DEF Allocated
  <2>3. \A d : Lists(d)' = Lists(d)
    BY <1>5 DEF Lists
  <2>. QED  BY <1>9, <2>1, <2>2, <2>3 DEF Store, Lists
<1>13. ClassFact'
  BY <1>5, <1>6 DEF ClassFact
<1>14. Held(r)'
  <2>1. /\ Len(r) = 1 /\ r[1].k \in Loops /\ (r[1].k = "purge" => r[1].next # o)
        /\ Stacked(r) /\ DOMAIN r = 1..Len(r)
    BY <1>3, <1>4, LenProperties DEF Fits, Held, Stacked
  <2>2. ASSUME NEW x \in Elements(r)
        PROVE  Sound(x)'
    <3>1. x = r[1] /\ Sound(x) /\ x \in Frame
      BY <1>3, <2>1, SoundFrame DEF Elements, Held
    <3>2. x.k = "purge" => x.next \in Allocated' \cup {None}
      BY <1>7, <2>1, <3>1 DEF Sound
    <3>. QED  BY <2>1, <3>1, <3>2 DEF Sound, Loops, Pending
  <2>. QED  BY <2>1, <2>2 DEF Held, Stacked, Shape, Frame, Elements
<1>. QED  BY <1>5, <1>10, <1>11, <1>12, <1>13, <1>14, Conclude DEF Data

-----------------------------------------------------------------------------
(* Every step, and the first state.                                        *)

LEMMA ApplicationInv ==
    ASSUME Inv, Application, Rules = AllRules
    PROVE  Inv'
<1>1. fault = "none" /\ At("user") /\ UNCHANGED classVars
  BY DEF Application, MayCall, Running
<1>2. CASE Listing
  BY <1>1, <1>2, ListingInv
<1>3. CASE Emits
  BY <1>1, <1>3, EmitInv
<1>4. ASSUME NEW o \in Objects, NEW c \in Classes, New(o, c)
      PROVE  Inv'
  BY <1>1, <1>4, NewInv
<1>5. ASSUME NEW o \in Objects, NoteAdd(o)
      PROVE  Inv'
  BY <1>1, <1>5, NoteAddInv
<1>6. ASSUME NEW o \in Objects, NEW n \in Names \cup {None}, MayName(o, n), NameSet(o, n)
      PROVE  Inv'
  BY <1>1, <1>6, NameSetInv
<1>7. ASSUME NEW n \in Names, NameFind(n)
      PROVE  Inv'
  BY <1>1, <1>7, NameFindInv
<1>8. ASSUME NEW o \in Objects, NEW l \in Locations, MayWatch(o), WeakAdd(o, l)
      PROVE  Inv'
  BY <1>1, <1>8, WeakInv DEF MayWatch, Keeps, AllRules
<1>9. ASSUME NEW o \in Objects, NEW l \in Locations, WeakRemove(o, l)
      PROVE  Inv'
  BY <1>1, <1>9, WeakInv
<1>10. ASSUME NEW o \in Objects, MayDestroy, Destroy(o)
       PROVE  Inv'
  BY <1>1, <1>10, DestroyInv
<1>11. CASE MayLoop /\ Shutdown
  BY <1>1, <1>11, ShutdownInv DEF MayLoop, Keeps, AllRules
<1>. QED  BY <1>2, <1>3, <1>4, <1>5, <1>6, <1>7, <1>8, <1>9, <1>10, <1>11 DEF Application

LEMMA LibraryInv ==
    ASSUME Inv, Library
    PROVE  Inv'
<1>1. fault = "none" /\ UNCHANGED classVars
  BY DEF Library
<1>2. CASE Emission_
  BY <1>1, <1>2, EmissionReadsInv, EmissionCallsInv, EmissionEndsInv DEF Emission_
<1>3. CASE NamingEnds
  BY <1>1, <1>3, NamingEndsInv
<1>4. CASE NotifyStep
  BY <1>1, <1>4, NotifyInv
<1>5. CASE DestroyEnds
  BY <1>1, <1>5, DestroyEndsInv
<1>6. CASE FreeDestroys
  BY <1>1, <1>6, FreeDestroysInv
<1>7. CASE FreeCalls
  BY <1>1, <1>7, FreeCallsInv
<1>8. CASE FreeEnds
  BY <1>1, <1>8, FreeEndsInv
<1>9. CASE PurgeStep
  BY <1>1, <1>9, PurgeStepInv
<1>10. CASE PurgeEnds
  BY <1>1, <1>10, PurgeEndsInv
<1>11. CASE ShutdownStep
  BY <1>1, <1>11, ShutdownStepInv
<1>. QED  BY <1>2, <1>3, <1>4, <1>5, <1>6, <1>7, <1>8, <1>9, <1>10, <1>11 DEF Library

LEMMA NextInv ==
    ASSUME Inv, [Next]_vars, Rules = AllRules
    PROVE  Inv'
<1>1. CASE UNCHANGED vars
  <2>1. UNCHANGED dataVars /\ stack' = stack /\ fault' = fault
    BY <1>1 DEF vars, dataVars, lifeVars, classVars
  <2>. QED  BY <2>1, SameData, SameStack DEF Inv
<1>2. CASE Application
  BY <1>2, ApplicationInv
<1>3. CASE Round
  <2>1. stack = <<>> /\ Purge /\ UNCHANGED classVars
    BY <1>3 DEF Round, MayLoop, Keeps, AllRules
  <2>. QED  BY <2>1, PurgeInv
<1>4. CASE Library
  BY <1>4, LibraryInv
<1>5. ASSUME NEW d \in Depths, ReturnsAt(d)
      PROVE  Inv'
  <2>1. PICK more \in BOOLEAN : Returns(more)
    BY <1>5 DEF ReturnsAt
  <2>2. At("user") /\ fault = "none" /\ UNCHANGED <<classVars, typeVars, lifeVars, nameVars, weakVars>>
    BY <1>5, <2>1 DEF ReturnsAt, Returns
  <2>. QED  BY <2>1, <2>2, ReturnsInv
<1>. QED  BY <1>1, <1>2, <1>3, <1>4, <1>5 DEF Next

LEMMA SettledClasses ==
    ASSUME Settled
    PROVE  ClassTypeOK /\ ClassFact /\ Allocated = {}
<1>1. /\ made = Classes
      /\ chain = [c \in Classes |-> IF c = Root THEN <<>> ELSE <<Root>>]
      /\ signals = [c \in Classes |-> IF c = Root THEN Own[Root] ELSE Own[Root] \o Own[c]]
      /\ type = [o \in Objects |-> None] /\ slots = [o \in Objects |-> 0]
  BY DEF Settled
<1>2. Root \in Classes /\ \A c \in Classes : Own[c] \in Seq(Signals)
  BY EobjAssumption
<1>3. signals \in [Classes -> Seq(Signals)] /\ signals[Root] = Own[Root]
  <2>1. \A c \in Classes : Own[Root] \o Own[c] \in Seq(Signals)
    BY <1>2, ConcatProperties
  <2>. QED  BY <1>1, <1>2, <2>1
<1>4. chain \in [Classes -> Seq(Classes)]
  <2>1. <<>> \in Seq(Classes) /\ <<Root>> \in Seq(Classes)
    BY <1>2
  <2>. QED  BY <1>1, <2>1
<1>5. ASSUME NEW c \in Classes
      PROVE  /\ DOMAIN signals[c] \subseteq Nat
             /\ \A i \in DOMAIN Own[Root] : i \in DOMAIN signals[c] /\ signals[c][i] = Own[Root][i]
             /\ \A i \in DOMAIN signals[c] \ DOMAIN Own[Root] :
                  c # Root /\ signals[c][i] \in Elements(Own[c])
  <2>1. CASE c = Root
    <3>1. PICK s \in Seq(Signals) : s = Own[Root] /\ s = signals[c]
      BY <1>2, <1>3, <2>1
    <3>2. DOMAIN s = 1..Len(s) /\ Len(s) \in Nat
      BY LenProperties
    <3>3. DOMAIN s \subseteq Nat
      BY <3>2
    <3>. QED  BY <3>1, <3>3
  <2>2. CASE c # Root
    <3>1. PICK s \in Seq(Signals), t \in Seq(Signals) : s = Own[Root] /\ t = Own[c]
      BY <1>2
    <3>2. signals[c] = s \o t
      BY <1>1, <2>2, <3>1
    <3>3. /\ s \o t \in Seq(Signals) /\ Len(s \o t) = Len(s) + Len(t)
          /\ \A i \in 1..Len(s) : (s \o t)[i] = s[i]
          /\ \A i \in Len(s) + 1..Len(s) + Len(t) : (s \o t)[i] = t[i - Len(s)]
      BY ConcatProperties
    <3>4. /\ DOMAIN s = 1..Len(s) /\ DOMAIN t = 1..Len(t) /\ Len(s) \in Nat /\ Len(t) \in Nat
          /\ DOMAIN (s \o t) = 1..Len(s) + Len(t)
      BY <3>3, LenProperties
    <3>5. ASSUME NEW i \in DOMAIN (s \o t), i \notin DOMAIN s
          PROVE  (s \o t)[i] \in Elements(t)
      <4>1. i \in Len(s) + 1..Len(s) + Len(t) /\ i - Len(s) \in DOMAIN t
        BY <3>4, <3>5
      <4>. QED  BY <3>3, <4>1 DEF Elements
    <3>6. DOMAIN (s \o t) \subseteq Nat
      BY <3>4
    <3>7. \A i \in DOMAIN s : i \in DOMAIN (s \o t) /\ (s \o t)[i] = s[i]
      BY <3>3, <3>4
    <3>. QED  BY <2>2, <3>1, <3>2, <3>5, <3>6, <3>7
  <2>. QED  BY <2>1, <2>2
<1>6. PICK place : /\ \A s \in Signals : /\ code[s] = place[s] - 1
                                         /\ \E c \in Classes : /\ place[s] \in DOMAIN signals[c]
                                                               /\ signals[c][place[s]] = s
                   /\ code = [s \in Signals |-> place[s] - 1]
  <2>. DEFINE At_(s) == CHOOSE i \in Codes :
                          \E c \in Classes : i \in DOMAIN signals[c] /\ signals[c][i] = s
  <2>1. ASSUME NEW s \in Signals
        PROVE  \E i \in Codes : \E c \in Classes : i \in DOMAIN signals[c] /\ signals[c][i] = s
    <3>1. PICK c \in Classes : s \in Elements(Own[c])
      BY ObjectAssumption
    <3>2. PICK j \in DOMAIN Own[c] : Own[c][j] = s
      BY <3>1 DEF Elements
    <3>3. \E i \in DOMAIN signals[c] : signals[c][i] = s
      <4>1. CASE c = Root
        BY <1>3, <3>2, <4>1
      <4>2. CASE c # Root
        <5>1. PICK a \in Seq(Signals), b \in Seq(Signals) : a = Own[Root] /\ b = Own[c]
          BY <1>2
        <5>2. signals[c] = a \o b
          BY <1>1, <4>2, <5>1
        <5>3. /\ a \o b \in Seq(Signals) /\ Len(a \o b) = Len(a) + Len(b)
              /\ \A i \in Len(a) + 1..Len(a) + Len(b) : (a \o b)[i] = b[i - Len(a)]
          BY ConcatProperties
        <5>4. /\ DOMAIN b = 1..Len(b) /\ Len(a) \in Nat /\ Len(b) \in Nat
              /\ DOMAIN (a \o b) = 1..Len(a) + Len(b)
          BY <5>3, LenProperties
        <5>5. j \in 1..Len(b)
          BY <3>2, <5>1, <5>4
        <5>6. /\ Len(a) + j \in Len(a) + 1..Len(a) + Len(b)
              /\ Len(a) + j \in DOMAIN (a \o b) /\ (Len(a) + j) - Len(a) = j
          BY <5>4, <5>5
        <5>7. (a \o b)[Len(a) + j] = s
          BY <3>2, <5>1, <5>3, <5>6
        <5>. QED  BY <5>2, <5>6, <5>7
      <4>. QED  BY <4>1, <4>2
    <3>. QED  BY <3>3 DEF Codes
  <2>2. \A s \in Signals : \E c \in Classes : At_(s) \in DOMAIN signals[c] /\ signals[c][At_(s)] = s
    BY <2>1
  <2>3. code = [s \in Signals |-> At_(s) - 1]
    BY DEF Settled
  <2>. HIDE DEF At_
  <2>4. PICK place : place = [s \in Signals |-> At_(s)]
    OBVIOUS
  <2>5. \A s \in Signals : place[s] = At_(s)
    BY <2>4
  <2>6. \A s \in Signals : code[s] = place[s] - 1
    BY <2>3, <2>5
  <2>7. code = [s \in Signals |-> place[s] - 1]
    BY <2>3, <2>5
  <2>. QED  BY <2>2, <2>5, <2>6, <2>7
<1>7. code \in [Signals -> Int] /\ \A s \in Signals : place[s] \in Nat
  <2>1. \A s \in Signals : place[s] \in Nat
    BY <1>5, <1>6
  <2>. QED  BY <1>6, <2>1
<1>8. ClassFact
  <2>1. Destroyed \in Elements(Own[Root]) /\ Destroyed \in Signals
    BY <1>2, ObjectAssumption, ElementOfSeq, LenProperties DEF Elements
  <2>2. PICK c \in Classes : /\ place[Destroyed] \in DOMAIN signals[c]
                             /\ signals[c][place[Destroyed]] = Destroyed
    BY <1>6, <2>1
  <2>3. place[Destroyed] \in DOMAIN Own[Root]
    <3>. SUFFICES ASSUME place[Destroyed] \notin DOMAIN Own[Root] PROVE FALSE
      OBVIOUS
    <3>1. c # Root /\ Destroyed \in Elements(Own[c])
      BY <1>5, <2>2
    <3>. QED  BY <1>2, <2>1, <3>1, EobjAssumption
  <2>4. code[Destroyed] + 1 = place[Destroyed]
    BY <1>6, <1>7, <2>1
  <2>. QED  BY <1>5, <2>3, <2>4 DEF ClassFact
<1>9. type \in [Objects -> Classes \cup {None}] /\ slots \in [Objects -> Nat] /\ Allocated = {}
  BY <1>1 DEF Allocated
<1>. QED  BY <1>1, <1>3, <1>4, <1>7, <1>8, <1>9 DEF ClassTypeOK

LEMMA InitInv == Init => Inv
<1>. SUFFICES ASSUME Init PROVE Inv
  OBVIOUS
<1>1. ClassTypeOK /\ ClassFact /\ Allocated = {} /\ SignalInit /\ ObjectInit
  BY SettledClasses DEF Init
<1>2. MaxNodes \in Nat /\ MaxNotes \in Nat /\ None \notin Names
  BY ObjectAssumption
<1>3. Elements(<< >>) = {} /\ << >> \in Seq(Objects) /\ << >> \in Seq(Seq(Nodes)) /\ Len(<< >>) <= 1
  BY DEF Elements
<1>4. TypeOK
  <2>1. calls \in [Objects -> Seq(Seq(Nodes))] /\ hash \in [Names -> Seq(Objects)]
    BY <1>1, <1>3 DEF SignalInit, ObjectInit
  <2>2. notes \in [Objects -> 0..MaxNotes] /\ used \in 0..MaxNodes
    BY <1>1, <1>2 DEF SignalInit, ObjectInit
  <2>. QED  BY <1>1, <1>3, <2>1, <2>2 DEF TypeOK, SignalInit, ObjectInit
<1>5. NamesAgree
  BY <1>1, <1>2, <1>3 DEF ObjectInit, NamesAgree, Elements
<1>6. Store
  BY <1>1 DEF ObjectInit, Store
<1>7. PICK s : s = stack /\ s = << >>
  BY <1>1 DEF SignalInit
<1>8. Held(s)
  BY <1>7, EmptyHeld
<1>. QED  BY <1>1, <1>4, <1>5, <1>6, <1>7, <1>8 DEF Inv, Data, NoFault, SignalInit

LEMMA SafeInvariant ==
    ASSUME Rules = AllRules
    PROVE  Spec => []Inv
<1>1. Init => Inv
  BY InitInv
<1>2. Inv /\ [Next]_vars => Inv'
  BY NextInv
<1>. QED  BY <1>1, <1>2, PTL DEF Spec

-----------------------------------------------------------------------------
(* What an application that keeps to the rules can rely on.                *)

\* With an application that keeps to the rules, the invariant of Eobj holds in
\* every state: TLC checks it on small instances, and here it is for all.
THEOREM SafeAlways ==
    ASSUME Rules = AllRules
    PROVE  Spec => []SafeInv
<1>1. Inv => SafeInv
  BY DEF Inv, Data, Held, Stacked, SafeInv
<1>. QED  BY <1>1, SafeInvariant, PTL

\* The tables and lists of eobj have their types, and the list of objects holds
\* those that are allocated.
THEOREM ObjectTypeCorrect ==
    ASSUME Rules = AllRules
    PROVE  Spec => []TypeOK
<1>1. Inv => TypeOK
  BY DEF Inv, Data
<1>. QED  BY <1>1, SafeInvariant, PTL

\* However deep the callbacks inside one another, no call goes through an object
\* or a callback that was freed.
THEOREM NothingFreedIsUsed ==
    ASSUME Rules = AllRules
    PROVE  Spec => []NoFault
<1>1. Inv => NoFault
  BY DEF Inv
<1>. QED  BY <1>1, SafeInvariant, PTL

\* The table of names finds the object that has the name, and no other.
THEOREM NamesAlwaysAgree ==
    ASSUME Rules = AllRules
    PROVE  Spec => []NamesAgree
<1>1. Inv => NamesAgree
  BY DEF Inv, Data
<1>. QED  BY <1>1, SafeInvariant, PTL

\* An emission always knows whether its object was destroyed, and its object is
\* not freed before it returns.
THEOREM EmissionAlwaysKnows ==
    ASSUME Rules = AllRules
    PROVE  Spec => []EmissionKnows
<1>1. ASSUME Inv PROVE EmissionKnows
  <2>. SUFFICES ASSUME NEW i \in DOMAIN stack, stack[i].k = "emit"
                PROVE  /\ ~Gone(stack[i].o)
                       /\ ~stack[i].late => (stack[i].ptr <=> stack[i].o \notin dead)
    BY DEF EmissionKnows
  <2>1. PICK f : f = stack[i] /\ f.k = "emit" /\ Sound(f) /\ f \in Frame
    BY <1>1, SoundFrame DEF Inv, Held, Elements
  <2>2. f.o \in Allocated
    BY <2>1, EmitKind
  <2>. QED  BY <2>1, <2>2 DEF Sound, Allocated, Gone
<1>. QED  BY <1>1, SafeInvariant, PTL

\* An object says once that it is destroyed, before its destructors run.
THEOREM DestroyedIsSaidOnce ==
    ASSUME Rules = AllRules
    PROVE  Spec => []SaysDestroyedOnce
<1>1. ASSUME Inv PROVE SaysDestroyedOnce
  <2>1. \A o \in Allocated : told[o] = IF o \in dead THEN 1 ELSE 0
    BY <1>1 DEF Inv, Data, Store
  <2>2. \A i, j \in DOMAIN stack :
          stack[i].k = "free" /\ stack[i].at > 0 /\ stack[j].k = "emit" /\ stack[j].s = Destroyed =>
            stack[i].o # stack[j].o
    BY <1>1 DEF Inv, Held, Stacked, Shape
  <2>. QED  BY <2>1, <2>2 DEF SaysDestroyedOnce
<1>. QED  BY <1>1, SafeInvariant, PTL

-----------------------------------------------------------------------------
(* Weak pointers, with any application that does not register them to what *)
(* was destroyed, whatever else it does.                                   *)

WeakOk ==
    /\ type \in [Objects -> Classes \cup {None}]
    /\ loc \in [Locations -> Objects \cup {None}]
    /\ reg \in [Objects -> SUBSET Locations]
    /\ \A l \in Locations : loc[l] # None =>
         loc[l] \in Allocated \ dead /\ l \in reg[loc[l]]

LEMMA WeakSame ==
    ASSUME WeakOk, UNCHANGED <<type, dead, loc, reg>>
    PROVE  WeakOk'
BY DEF WeakOk, Allocated

LEMMA WeakNext ==
    ASSUME WeakOk, [Next]_vars, "weak on living" \in Rules
    PROVE  WeakOk'
<1>1. CASE UNCHANGED vars
  BY <1>1, WeakSame DEF vars, typeVars, lifeVars, weakVars
<1>2. ASSUME NEW o \in Objects, NEW c \in Classes, New(o, c)
      PROVE  WeakOk'
  <2>1. UNCHANGED <<dead, loc, reg>> /\ type' = [type EXCEPT ![o] = c]
    BY <1>2 DEF New, Construct, weakVars
  <2>2. None \notin Classes
    BY EobjAssumption
  <2>. QED  BY <2>1, <2>2 DEF WeakOk, Allocated
<1>3. ASSUME NEW o \in Objects, NEW l \in Locations, MayWatch(o), WeakAdd(o, l)
      PROVE  WeakOk'
  <2>1. /\ UNCHANGED <<type, dead>> /\ o \in Allocated /\ o \notin dead
        /\ loc' = [loc EXCEPT ![l] = o] /\ reg' = [reg EXCEPT ![o] = @ \cup {l}]
    BY <1>3 DEF WeakAdd, MayWatch, Keeps, typeVars, lifeVars
  <2>. QED  BY <2>1 DEF WeakOk, Allocated
<1>4. ASSUME NEW o \in Objects, NEW l \in Locations, WeakRemove(o, l)
      PROVE  WeakOk'
  <2>1. /\ UNCHANGED <<type, dead>>
        /\ loc' = [loc EXCEPT ![l] = IF @ = o THEN None ELSE @]
        /\ reg' = [reg EXCEPT ![o] = @ \ {l}]
    BY <1>4 DEF WeakRemove, typeVars, lifeVars
  <2>2. ASSUME NEW m \in Locations, loc'[m] # None
        PROVE  loc'[m] \in Allocated \ dead /\ m \in reg'[loc'[m]]
    <3>1. loc'[m] = loc[m] /\ (m = l => loc[m] # o) /\ loc[m] \in Allocated \ dead /\ m \in reg[loc[m]]
      BY <2>1, <2>2 DEF WeakOk
    <3>. QED  BY <2>1, <3>1 DEF WeakOk, Allocated
  <2>. QED  BY <2>1, <2>2 DEF WeakOk, Allocated
<1>5. CASE DestroyEnds
  <2>1. PICK o : /\ UNCHANGED type
                 /\ loc' = [l \in Locations |-> IF l \in reg[o] THEN None ELSE loc[l]]
                 /\ reg' = [reg EXCEPT ![o] = {}] /\ dead' = dead \cup {o}
    BY <1>5 DEF DestroyEnds, ClearPointers, typeVars
  <2>2. ASSUME NEW l \in Locations, loc'[l] # None
        PROVE  loc'[l] \in Allocated \ dead' /\ l \in reg'[loc'[l]]
    <3>1. l \notin reg[o] /\ loc'[l] = loc[l] /\ loc[l] \in Allocated \ dead /\ l \in reg[loc[l]]
      BY <2>1, <2>2 DEF WeakOk
    <3>. QED  BY <2>1, <3>1 DEF WeakOk, Allocated
  <2>. QED  BY <2>1, <2>2 DEF WeakOk, Allocated
<1>6. CASE FreeEnds
  <2>1. PICK o : /\ o \in dead /\ type' = [type EXCEPT ![o] = None]
                 /\ reg' = [reg EXCEPT ![o] = {}] /\ dead' = dead \ {o} /\ UNCHANGED loc
    BY <1>6 DEF FreeEnds, Deallocate
  <2>2. ASSUME NEW l \in Locations, loc'[l] # None
        PROVE  loc'[l] \in Allocated' \ dead' /\ l \in reg'[loc'[l]]
    <3>1. loc[l] \in Allocated \ dead /\ l \in reg[loc[l]] /\ loc[l] # o
      BY <2>1, <2>2 DEF WeakOk
    <3>. QED  BY <2>1, <3>1 DEF WeakOk, Allocated
  <2>. QED  BY <2>1, <2>2 DEF WeakOk
<1>7. CASE Listing \/ Emits \/ Purge \/ Shutdown
  BY <1>7, WeakSame DEF Listing, Emits, Purge, Shutdown, typeVars, lifeVars, weakVars
<1>8. ASSUME NEW o \in Objects, \/ NoteAdd(o) \/ Destroy(o)
                                \/ \E n \in Names \cup {None} : NameSet(o, n)
      PROVE  WeakOk'
  BY <1>8, WeakSame DEF NoteAdd, Destroy, NameSet, typeVars, lifeVars, weakVars
<1>9. ASSUME NEW n \in Names, NameFind(n)
      PROVE  WeakOk'
  BY <1>9, WeakSame DEF NameFind, typeVars, lifeVars, weakVars
<1>10. CASE \/ Emission_ \/ NamingEnds \/ NotifyStep \/ FreeDestroys \/ FreeCalls
            \/ PurgeStep \/ PurgeEnds \/ ShutdownStep
  BY <1>10, WeakSame DEF Emission_, NamingEnds, NotifyStep, FreeDestroys, FreeCalls,
                         PurgeStep, PurgeEnds, ShutdownStep, typeVars, lifeVars, weakVars
<1>11. ASSUME NEW d \in Depths, ReturnsAt(d)
       PROVE  WeakOk'
  BY <1>11, WeakSame DEF ReturnsAt, typeVars, lifeVars, weakVars
<1>12. CASE Application
  BY <1>2, <1>3, <1>4, <1>7, <1>8, <1>9, <1>12 DEF Application
<1>13. CASE Library
  BY <1>5, <1>6, <1>10, <1>13 DEF Library
<1>. QED  BY <1>1, <1>7, <1>11, <1>12, <1>13 DEF Next, Round

\* A weak pointer is NULL before its object is freed, whichever of the other
\* rules the application breaks.
THEOREM WeakPointersSafe ==
    ASSUME "weak on living" \in Rules
    PROVE  Spec => []WeakSafe
<1>1. Init => WeakOk
  <2>. SUFFICES ASSUME Init PROVE WeakOk
    OBVIOUS
  <2>1. type = [o \in Objects |-> None] /\ ObjectInit
    BY DEF Init, Settled
  <2>. QED  BY <2>1 DEF ObjectInit, WeakOk
<1>2. WeakOk /\ [Next]_vars => WeakOk'
  BY WeakNext
<1>3. WeakOk => WeakSafe
  BY DEF WeakOk, WeakSafe, Gone, Allocated
<1>. QED  BY <1>1, <1>2, <1>3, PTL DEF Spec
=============================================================================
