---------------------------- MODULE AdbShellProofs ----------------------------
(***************************************************************************)
(* What a command's outcome says of the bytes of its stream is right for   *)
(* every bound, every stream and every way to cut it into packets.         *)
(*                                                                         *)
(* The reference splits a stream into frames by a recursive function; a    *)
(* number belongs to its starts when it is reached from 0, so a smallest   *)
(* counterexample (LeastNumber, StartsFacts) replaces induction.  From it: *)
(* frames follow one another, a stream that begins with p has p's frames   *)
(* (FramesPrefix), and the bytes after p are one frame more or none        *)
(* (AddsFrame, AddsNoFrame).  ShellInv says that feed has decoded such a p *)
(* and holds the rest.                                                     *)
(***************************************************************************)
EXTENDS AdbShell, TLAPS, WellFoundedInduction, FiniteSetTheorems, SequenceTheorems

-----------------------------------------------------------------------------
(* Where frames start.                                                     *)

(* A nonempty set of numbers has a least element.                          *)
LEMMA LeastNumber ==
  ASSUME NEW T, T \subseteq Nat, T # {} PROVE \E x \in T : \A y \in T : x <= y
<1> DEFINE R == OpToRel(<, Nat)
<1>1. IsWellFoundedOn(R, Nat)
  BY NatLessThanWellFounded
<1>2. \A x, y \in Nat : x < y => <<x, y>> \in R
  BY DEF OpToRel
<1> HIDE DEF R
<1>3. PICK x \in T : \A y \in T : <<y, x>> \notin R
  BY <1>1, WFMin
<1>4. ASSUME NEW y \in T PROVE x <= y
  <2>1. x \in Nat /\ y \in Nat /\ ~(y < x)
    BY <1>2, <1>3
  <2>2. QED
    BY <2>1
<1>5. QED
  BY <1>4

(* The starts are 0 and the ends of the frames that start at one.          *)
LEMMA StartsFacts ==
  ASSUME NEW r \in Seq(Nat)
  PROVE  /\ 0 \in Starts(r) /\ Starts(r) \subseteq 0..Len(r)
         /\ \A s \in Starts(r) : s + Header <= Len(r) /\ NextStart(r, s) <= Len(r)
                                 => NextStart(r, s) \in Starts(r)
         /\ \A p \in Starts(r) :
              p = 0 \/ \E s \in Starts(r) : s + Header <= p /\ NextStart(r, s) = p
<1> DEFINE N == 0..Len(r)
           Is(f, p) == p = 0 \/ \E s \in 0..(p - Header) : f[s] /\ NextStart(r, s) = p
           F == CHOOSE f : f = [p \in N |-> Is(f, p)]
           closed(C) == /\ 0 \in C
                        /\ \A s \in C : s + Header <= Len(r) /\ NextStart(r, s) <= Len(r)
                                        => NextStart(r, s) \in C
           I == {p \in N : \A C \in SUBSET N : closed(C) => p \in C}
           g == [p \in N |-> p \in I]
<1>1. Starts(r) = {p \in N : F[p]}
  BY DEF Starts
<1>2. /\ Len(r) \in Nat
      /\ \A s \in N : s + Header <= Len(r) =>
           NextStart(r, s) \in Nat /\ NextStart(r, s) >= s + Header
  BY DEF NextStart, Header
<1>3. closed(I)
  <2>1. 0 \in I
    BY <1>2
  <2>2. ASSUME NEW s \in I, s + Header <= Len(r), NextStart(r, s) <= Len(r)
        PROVE  NextStart(r, s) \in I
    <3>1. NextStart(r, s) \in N
      BY <1>2, <2>2
    <3>2. QED
      BY <2>2, <3>1
  <2>3. QED
    BY <2>1, <2>2
<1>4. ASSUME NEW p \in N PROVE p \in I <=> Is(g, p)
  <2>1. ASSUME p \in I, ~Is(g, p) PROVE FALSE
    <3>1. closed(I \ {p})
      <4>1. 0 \in I \ {p}
        BY <1>3, <2>1
      <4>2. ASSUME NEW s \in I \ {p}, s + Header <= Len(r), NextStart(r, s) <= Len(r)
            PROVE  NextStart(r, s) # p
        <5>1. g[s] /\ s \in N
          OBVIOUS
        <5>2. NextStart(r, s) = p => s \in 0..(p - Header)
          BY <1>2, <5>1, <4>2 DEF Header
        <5>3. QED
          BY <2>1, <5>1, <5>2
      <4>3. QED
        BY <1>3, <4>1, <4>2
    <3>2. I \ {p} \in SUBSET N
      OBVIOUS
    <3>3. p \in I \ {p}
      BY <2>1, <3>1, <3>2
    <3>4. QED
      BY <3>3
  <2>2. ASSUME Is(g, p) PROVE p \in I
    <3>1. CASE p = 0
      BY <1>3, <3>1
    <3>2. ASSUME NEW s \in 0..(p - Header), g[s], NextStart(r, s) = p PROVE p \in I
      <4>1. s \in N
        BY <1>2, <3>2 DEF Header
      <4> HIDE DEF I
      <4>4. s \in I
        BY <3>2, <4>1, Zenon
      <4>2. s + Header <= Len(r) /\ NextStart(r, s) <= Len(r)
        BY <1>2, <3>2 DEF Header
      <4>3. QED
        BY <1>3, <3>2, <4>4, <4>2
    <3>3. QED
      BY <2>2, <3>1, <3>2
  <2>3. QED
    BY <2>1, <2>2
<1>5. g = [p \in N |-> Is(g, p)]
  <2> HIDE DEF I, N
  <2>1. ASSUME NEW p \in N PROVE (p \in I) = Is(g, p)
    <3> DEFINE a == p \in I
               b == Is(g, p)
    <3>1. a \in BOOLEAN /\ b \in BOOLEAN /\ (a <=> b)
      BY <1>4
    <3> HIDE DEF a, b
    <3>2. a = b
      BY <3>1
    <3>3. QED
      BY <3>2 DEF a, b
  <2>2. QED
    BY <2>1, Zenon
<1>6. F = [p \in N |-> Is(F, p)]
  BY <1>5, Zenon
<1>7. \A p \in N : F[p] <=> Is(F, p)
  BY <1>6, Zenon
<1>8. Starts(r) \subseteq N /\ \A p \in N : p \in Starts(r) <=> F[p]
  BY <1>1
<1> HIDE DEF F
<1>9. 0 \in Starts(r)
  BY <1>2, <1>7, <1>8
<1>10. ASSUME NEW s \in Starts(r), s + Header <= Len(r), NextStart(r, s) <= Len(r)
       PROVE  NextStart(r, s) \in Starts(r)
  <2>1. s \in N /\ NextStart(r, s) \in N /\ s \in 0..(NextStart(r, s) - Header) /\ F[s]
    BY <1>2, <1>8, <1>10 DEF Header
  <2>2. Is(F, NextStart(r, s))
    BY <2>1, Zenon
  <2>3. QED
    BY <1>7, <1>8, <2>1, <2>2
<1>11. ASSUME NEW p \in Starts(r), p # 0
       PROVE  \E s \in Starts(r) : s + Header <= p /\ NextStart(r, s) = p
  <2>1. p \in N /\ Is(F, p)
    BY <1>7, <1>8, Zenon
  <2>2. PICK s \in 0..(p - Header) : F[s] /\ NextStart(r, s) = p
    BY <1>11, <2>1, Zenon
  <2>3. s \in N /\ s + Header <= p
    BY <1>2, <2>1, <2>2 DEF Header
  <2>4. QED
    BY <1>8, <2>2, <2>3
<1>12. QED
  BY <1>8, <1>9, <1>10, <1>11

(* The numbers of a frame whose header is there.                           *)
LEMMA NextFacts ==
  ASSUME NEW r \in Seq(Nat), NEW s \in Nat, s + Header <= Len(r)
  PROVE  /\ Len(r) \in Nat /\ s + 1 \in 1..Len(r) /\ s + 2 \in 1..Len(r)
         /\ r[s + 1] \in Nat /\ r[s + 2] \in Nat
         /\ NextStart(r, s) = s + 2 + r[s + 2]
         /\ NextStart(r, s) \in Nat /\ s + 2 <= NextStart(r, s)
<1>1. Len(r) \in Nat /\ s + 1 \in 1..Len(r) /\ s + 2 \in 1..Len(r)
  BY DEF Header
<1>2. r[s + 1] \in Nat /\ r[s + 2] \in Nat
  BY <1>1, ElementOfSeq
<1>3. NextStart(r, s) = s + 2 + r[s + 2]
  BY DEF NextStart, Header
<1>4. QED
  BY <1>1, <1>2, <1>3

-----------------------------------------------------------------------------
(* Frames follow one another: between a start and the next there is none.  *)

(* A frame ends at or before every later start.                            *)
LEMMA StartsOrdered ==
  ASSUME NEW r \in Seq(Nat), NEW s \in Starts(r), NEW t \in Starts(r), s < t
  PROVE  s + Header <= Len(r) /\ NextStart(r, s) <= t
<1> DEFINE Fits(u, v) == u + Header <= Len(r) /\ NextStart(r, u) <= v
           Bad == {v \in Starts(r) : \E u \in Starts(r) : u < v /\ ~Fits(u, v)}
<1>1. Len(r) \in Nat /\ Starts(r) \subseteq 0..Len(r)
  BY StartsFacts
<1>2. \A u \in Starts(r) : u \in Nat /\ u <= Len(r)
  BY <1>1
<1>3. ASSUME Bad # {} PROVE FALSE
  <2>1. Bad \subseteq Nat
    BY <1>2
  <2>2. PICK v \in Bad : \A w \in Bad : v <= w
    BY <1>3, <2>1, LeastNumber
  <2>3. PICK u \in Starts(r) : u < v /\ ~Fits(u, v)
    BY <2>2
  <2>4. v \in Starts(r) /\ v \in Nat /\ u \in Nat /\ v # 0 /\ v <= Len(r)
    BY <1>2, <2>2, <2>3
  <2>5. PICK w \in Starts(r) : w + Header <= v /\ NextStart(r, w) = v
    BY <2>4, StartsFacts
  <2>6. w \in Nat /\ w < v /\ Fits(w, v)
    BY <1>1, <1>2, <2>4, <2>5 DEF Header
  <2>7. w \notin Bad
    BY <2>2, <2>4, <2>6
  <2>8. CASE u < w
    <3>1. Fits(u, w)
      BY <2>7, <2>8
    <3>2. u + Header <= Len(r)
      BY <3>1
    <3>3. NextStart(r, u) \in Nat
      BY <2>4, <3>2, NextFacts
    <3>4. QED
      BY <2>3, <2>4, <2>6, <3>1, <3>3
  <2>9. CASE u = w
    BY <2>3, <2>6, <2>9
  <2>10. CASE w < u
    <3>1. u \notin Bad
      BY <2>2, <2>3, <2>4
    <3>2. Fits(w, u)
      BY <2>10, <3>1
    <3>3. QED
      BY <2>3, <2>4, <2>5, <3>2
  <2>11. QED
    BY <2>4, <2>6, <2>8, <2>9, <2>10
<1>4. QED
  BY <1>3

-----------------------------------------------------------------------------
(* What a stream says of a longer one that begins with it.                 *)

Begins(p, r) == Len(p) <= Len(r) /\ \A i \in 1..Len(p) : r[i] = p[i]

(* Whether a frame starts in p does not depend on what follows p.          *)
LEMMA StartsPrefix ==
  ASSUME NEW p \in Seq(Nat), NEW r \in Seq(Nat), Begins(p, r), NEW s \in 0..Len(p)
  PROVE  s \in Starts(p) <=> s \in Starts(r)
<1> DEFINE Bad == {v \in 0..Len(p) : ~(v \in Starts(p) <=> v \in Starts(r))}
<1>1. /\ Len(p) \in Nat /\ Len(r) \in Nat /\ Len(p) <= Len(r)
      /\ \A i \in 1..Len(p) : r[i] = p[i]
  BY DEF Begins
<1>2. \A u \in Nat : u + Header <= Len(p) =>
        /\ NextStart(p, u) = NextStart(r, u) /\ NextStart(p, u) \in Nat
  BY <1>1 DEF NextStart, Header
<1>3. Starts(p) \subseteq 0..Len(p) /\ Starts(r) \subseteq 0..Len(r)
      /\ 0 \in Starts(p) /\ 0 \in Starts(r)
  BY StartsFacts
<1>4. ASSUME Bad # {} PROVE FALSE
  <2>1. Bad \subseteq Nat
    BY <1>1
  <2>2. PICK v \in Bad : \A w \in Bad : v <= w
    BY <1>4, <2>1, LeastNumber
  <2>3. v \in Nat /\ v <= Len(p) /\ v # 0 /\ v <= Len(r)
    BY <1>1, <1>3, <2>2
  <2>4. \A u \in Nat : u < v => (u \in Starts(p) <=> u \in Starts(r))
    <3>1. ASSUME NEW u \in Nat, u < v PROVE u \in 0..Len(p) /\ ~(v <= u)
      BY <1>1, <2>3, <3>1
    <3>2. QED
      BY <2>2, <3>1
  <2>5. CASE v \in Starts(p)
    <3>1. PICK u \in Starts(p) : u + Header <= v /\ NextStart(p, u) = v
      BY <2>3, <2>5, StartsFacts
    <3> HIDE DEF Bad
    <3>2. u \in Nat /\ u < v /\ u + Header <= Len(p)
      BY <1>1, <1>3, <2>3, <3>1 DEF Header
    <3>3. u \in Starts(r) /\ NextStart(r, u) = v /\ u + Header <= Len(r)
      BY <1>1, <1>2, <2>4, <3>1, <3>2 DEF Header
    <3>4. v \in Starts(r)
      BY <2>3, <3>3, StartsFacts
    <3>5. QED
      BY <2>2, <2>5, <3>4 DEF Bad
  <2>6. CASE v \in Starts(r)
    <3>1. PICK u \in Starts(r) : u + Header <= v /\ NextStart(r, u) = v
      BY <2>3, <2>6, StartsFacts
    <3> HIDE DEF Bad
    <3>2. u \in Nat /\ u < v /\ u + Header <= Len(p)
      BY <1>1, <1>3, <2>3, <3>1 DEF Header
    <3>3. u \in Starts(p) /\ NextStart(p, u) = v
      BY <1>2, <2>4, <3>1, <3>2
    <3>4. v \in Starts(p)
      BY <2>3, <3>2, <3>3, StartsFacts
    <3>5. QED
      BY <2>2, <2>6, <3>4 DEF Bad
  <2>7. QED
    BY <2>2, <2>5, <2>6
<1>5. QED
  BY <1>4

(* The numbers of a complete frame.                                        *)
LEMMA FramesFacts ==
  ASSUME NEW r \in Seq(Nat), NEW s \in Frames(r)
  PROVE  /\ s \in Starts(r) /\ s \in Nat /\ Len(r) \in Nat
         /\ r[s + 1] \in Nat /\ r[s + 2] \in Nat
         /\ s + Header + r[s + 2] <= Len(r) /\ NextStart(r, s) = s + Header + r[s + 2]
         /\ NextStart(r, s) \in Nat /\ s + Header <= NextStart(r, s)
         /\ NextStart(r, s) <= Len(r) /\ s + Header <= Len(r)
<1>1. s \in Starts(r) /\ Starts(r) \subseteq 0..Len(r) /\ Len(r) \in Nat
  BY StartsFacts DEF Frames
<1>2. s \in Nat /\ s + Header <= Len(r) /\ NextStart(r, s) <= Len(r)
  BY <1>1 DEF Frames
<1>3. QED
  BY <1>1, <1>2, NextFacts DEF Header

(* The frames of the beginning are the frames that end in it.              *)
LEMMA FramesPrefix ==
  ASSUME NEW p \in Seq(Nat), NEW r \in Seq(Nat), Begins(p, r)
  PROVE  /\ \A s \in Frames(p) :
              /\ s \in Frames(r) /\ r[s + 1] = p[s + 1] /\ r[s + 2] = p[s + 2]
              /\ NextStart(r, s) = NextStart(p, s)
         /\ \A s \in Frames(r) : NextStart(r, s) <= Len(p) => s \in Frames(p)
<1>1. Len(p) \in Nat /\ Len(r) \in Nat /\ Len(p) <= Len(r)
  BY DEF Begins
<1>2. ASSUME NEW s \in Frames(p)
      PROVE  /\ s \in Frames(r) /\ r[s + 1] = p[s + 1] /\ r[s + 2] = p[s + 2]
             /\ NextStart(r, s) = NextStart(p, s)
  <2>1. s \in Starts(p) /\ s \in Nat /\ s + Header <= Len(p)
    BY FramesFacts
  <2>2. NextStart(p, s) \in Nat /\ NextStart(p, s) <= Len(p)
    BY FramesFacts
  <2>3. s \in 0..Len(p)
    BY <1>1, <2>1 DEF Header
  <2>4. s \in Starts(r)
    BY <2>1, <2>3, StartsPrefix
  <2>5. s + 1 \in 1..Len(p) /\ s + 2 \in 1..Len(p)
    BY <2>1, NextFacts
  <2>6. r[s + 1] = p[s + 1] /\ r[s + 2] = p[s + 2]
    BY <2>5 DEF Begins
  <2>7. NextStart(r, s) = NextStart(p, s)
    BY <2>6 DEF NextStart
  <2>8. s + Header <= Len(r) /\ NextStart(r, s) <= Len(r)
    BY <1>1, <2>1, <2>2, <2>7 DEF Header
  <2>9. QED
    BY <2>4, <2>6, <2>7, <2>8 DEF Frames
<1>3. ASSUME NEW s \in Frames(r), NextStart(r, s) <= Len(p) PROVE s \in Frames(p)
  <2>1. /\ s \in Starts(r) /\ s \in Nat
        /\ NextStart(r, s) \in Nat /\ s + Header <= NextStart(r, s)
    BY FramesFacts
  <2>2. s \in 0..Len(p) /\ s + Header <= Len(p)
    BY <1>1, <1>3, <2>1 DEF Header
  <2>3. s \in Starts(p)
    BY <2>1, <2>2, StartsPrefix
  <2>4. s + 2 \in 1..Len(p)
    BY <2>1, <2>2, NextFacts
  <2>5. NextStart(p, s) = NextStart(r, s)
    BY <2>4 DEF Begins, NextStart
  <2>6. QED
    BY <1>3, <2>2, <2>3, <2>5 DEF Frames
<1>4. QED
  BY <1>2, <1>3

(* The payloads of p stay payloads.                                        *)
LEMMA PositionsPrefix ==
  ASSUME NEW p \in Seq(Nat), NEW r \in Seq(Nat), Begins(p, r), NEW kind
  PROVE  Positions(p, kind) \subseteq Positions(r, kind)
<1>1. Len(p) \in Nat /\ Len(r) \in Nat /\ Len(p) <= Len(r)
  BY DEF Begins
<1>2. ASSUME NEW i \in Positions(p, kind) PROVE i \in Positions(r, kind)
  <2>1. PICK s \in Frames(p) : p[s + 1] = kind /\ i \in (s + Header + 1)..NextStart(p, s)
    BY DEF Positions
  <2>2. /\ s \in Frames(r) /\ r[s + 1] = p[s + 1] /\ NextStart(r, s) = NextStart(p, s)
    BY FramesPrefix
  <2>3. i \in 1..Len(r)
    BY <1>1 DEF Positions
  <2>4. QED
    BY <2>1, <2>2, <2>3 DEF Positions
<1>3. QED
  BY <1>2

-----------------------------------------------------------------------------
(* One frame more: r is p and a complete frame.                            *)

AddsFrame(p, r) ==
  /\ Begins(p, r)
  /\ Len(p) \in Starts(p)
  /\ Len(p) + Header <= Len(r)
  /\ Len(r) = NextStart(r, Len(p))

(* r's frames are p's and the one that was added.                          *)
LEMMA AddsFrameStarts ==
  ASSUME NEW p \in Seq(Nat), NEW r \in Seq(Nat), AddsFrame(p, r)
  PROVE  /\ Len(r) \in Starts(r)
         /\ Len(p) \in Frames(r)
         /\ \A s \in Frames(r) : s = Len(p) \/ s \in Frames(p)
<1>1. /\ Len(p) \in Nat /\ Len(r) \in Nat /\ Len(p) <= Len(r)
      /\ Len(p) + Header <= Len(r) /\ Len(r) = NextStart(r, Len(p))
      /\ Begins(p, r)
  BY DEF AddsFrame, Begins
<1>2. Len(p) \in Starts(r)
  BY <1>1, StartsPrefix DEF AddsFrame
<1>3. Len(p) \in Frames(r)
  BY <1>1, <1>2 DEF Frames
<1>4. Len(r) \in Starts(r)
  BY <1>1, <1>2, StartsFacts
<1>5. ASSUME NEW s \in Frames(r), s # Len(p) PROVE s \in Frames(p)
  <2>1. /\ s \in Starts(r) /\ s \in Nat /\ r[s + 2] \in Nat
        /\ s + Header + r[s + 2] <= Len(r) /\ NextStart(r, s) = s + Header + r[s + 2]
    BY FramesFacts
  <2>2. CASE s < Len(p)
    <3>1. NextStart(r, s) <= Len(p)
      BY <1>2, <2>1, <2>2, StartsOrdered
    <3>2. QED
      BY <1>1, <3>1, FramesPrefix
  <2>3. CASE Len(p) < s
    <3>1. Len(r) <= s
      BY <1>1, <1>2, <2>1, <2>3, StartsOrdered
    <3>2. QED
      BY <1>1, <2>1, <3>1 DEF Header
  <2>4. QED
    BY <1>1, <1>5, <2>1, <2>2, <2>3
<1>6. QED
  BY <1>3, <1>4, <1>5

(* The payload of the added frame is the only one that is new.             *)
LEMMA AddsFramePositions ==
  ASSUME NEW p \in Seq(Nat), NEW r \in Seq(Nat), AddsFrame(p, r), NEW kind
  PROVE  Positions(r, kind) =
           Positions(p, kind) \cup
             (IF r[Len(p) + 1] = kind THEN (Len(p) + Header + 1)..Len(r) ELSE {})
<1>1. /\ Len(p) \in Nat /\ Len(r) \in Nat /\ Len(p) <= Len(r)
      /\ Len(p) + Header <= Len(r) /\ Len(r) = NextStart(r, Len(p))
      /\ Begins(p, r)
  BY DEF AddsFrame, Begins
<1>2. Positions(p, kind) \subseteq Positions(r, kind)
  BY <1>1, PositionsPrefix
<1>3. ASSUME r[Len(p) + 1] = kind
      PROVE  (Len(p) + Header + 1)..Len(r) \subseteq Positions(r, kind)
  <2>1. Len(p) \in Frames(r)
    BY AddsFrameStarts
  <2>2. ASSUME NEW i \in (Len(p) + Header + 1)..Len(r) PROVE i \in Positions(r, kind)
    <3>1. i \in 1..Len(r) /\ i \in (Len(p) + Header + 1)..NextStart(r, Len(p))
      BY <1>1 DEF Header
    <3>2. QED
      BY <1>3, <2>1, <3>1 DEF Positions
  <2>3. QED
    BY <2>2
<1>4. ASSUME NEW i \in Positions(r, kind)
      PROVE  \/ i \in Positions(p, kind)
             \/ r[Len(p) + 1] = kind /\ i \in (Len(p) + Header + 1)..Len(r)
  <2>1. PICK s \in Frames(r) : r[s + 1] = kind /\ i \in (s + Header + 1)..NextStart(r, s)
    BY DEF Positions
  <2>2. CASE s = Len(p)
    BY <1>1, <2>1, <2>2
  <2>3. CASE s # Len(p)
    <3>1. s \in Frames(p)
      BY <2>3, AddsFrameStarts
    <3>2. /\ p[s + 1] = r[s + 1] /\ NextStart(p, s) = NextStart(r, s)
      BY <1>1, <3>1, FramesPrefix
    <3>3. s \in Nat /\ NextStart(p, s) \in Nat /\ NextStart(p, s) <= Len(p)
      BY <3>1, FramesFacts
    <3>4. i \in 1..Len(p)
      BY <1>1, <2>1, <3>2, <3>3 DEF Header
    <3>5. QED
      BY <2>1, <3>1, <3>2, <3>4 DEF Positions
  <2>4. QED
    BY <2>2, <2>3
<1>5. QED
  BY <1>2, <1>3, <1>4

-----------------------------------------------------------------------------
(* No frame more: what follows p in r is not complete.                     *)

AddsNoFrame(p, r) ==
  /\ Begins(p, r)
  /\ Len(p) \in Starts(p)
  /\ Len(p) + Header <= Len(r) => NextStart(r, Len(p)) > Len(r)

(* r's frames are p's, and what follows them is r without p.               *)
LEMMA AddsNoFrameFacts ==
  ASSUME NEW p \in Seq(Nat), NEW r \in Seq(Nat), AddsNoFrame(p, r)
  PROVE  /\ Frames(r) = Frames(p)
         /\ \A kind : Positions(r, kind) = Positions(p, kind)
         /\ Rest(r) = SubSeq(r, Len(p) + 1, Len(r))
<1>1. /\ Len(p) \in Nat /\ Len(r) \in Nat /\ Len(p) <= Len(r) /\ Begins(p, r)
      /\ Len(p) + Header <= Len(r) => NextStart(r, Len(p)) > Len(r)
  BY DEF AddsNoFrame, Begins
<1>2. Len(p) \in Starts(r) /\ Starts(r) \subseteq 0..Len(r)
  BY <1>1, StartsPrefix, StartsFacts DEF AddsNoFrame
<1>3. ASSUME NEW s \in Starts(r) PROVE s \in Nat /\ s <= Len(p)
  <2>1. s \in Nat /\ s <= Len(r)
    BY <1>1, <1>2
  <2>2. CASE Len(p) < s
    <3>1. Len(p) + Header <= Len(r) /\ NextStart(r, Len(p)) <= s
      BY <1>2, <2>2, StartsOrdered
    <3>2. NextStart(r, Len(p)) \in Nat
      BY <1>1, <3>1, NextFacts
    <3>3. QED
      BY <1>1, <2>1, <3>1, <3>2
  <2>3. QED
    BY <1>1, <2>1, <2>2
<1>4. ASSUME NEW s \in Frames(r) PROVE s \in Frames(p)
  <2>1. /\ s \in Starts(r) /\ s \in Nat /\ r[s + 2] \in Nat
        /\ s + Header + r[s + 2] <= Len(r) /\ NextStart(r, s) = s + Header + r[s + 2]
    BY FramesFacts
  <2>2. s # Len(p)
    BY <1>1, <2>1 DEF Header
  <2>3. s < Len(p)
    BY <1>1, <1>3, <2>1, <2>2
  <2>4. NextStart(r, s) <= Len(p)
    BY <1>2, <2>1, <2>3, StartsOrdered
  <2>5. QED
    BY <1>1, <2>4, FramesPrefix
<1>5. \A s \in Frames(p) : /\ s \in Frames(r) /\ r[s + 1] = p[s + 1]
                           /\ NextStart(r, s) = NextStart(p, s)
  BY <1>1, FramesPrefix
<1>6. Frames(r) = Frames(p)
  BY <1>4, <1>5
<1>7. ASSUME NEW kind PROVE Positions(r, kind) = Positions(p, kind)
  <2>1. ASSUME NEW i \in Positions(r, kind) PROVE i \in Positions(p, kind)
    <3>1. PICK s \in Frames(r) : r[s + 1] = kind /\ i \in (s + Header + 1)..NextStart(r, s)
      BY DEF Positions
    <3>2. /\ s \in Frames(p) /\ p[s + 1] = r[s + 1] /\ NextStart(p, s) = NextStart(r, s)
      BY <1>4, <1>5
    <3>3. s \in Nat /\ NextStart(p, s) \in Nat /\ NextStart(p, s) <= Len(p)
      BY <3>2, FramesFacts
    <3>4. i \in 1..Len(p)
      BY <1>1, <3>1, <3>2, <3>3 DEF Header
    <3>5. QED
      BY <3>1, <3>2, <3>4 DEF Positions
  <2>2. Positions(p, kind) \subseteq Positions(r, kind)
    BY <1>1, PositionsPrefix
  <2>3. QED
    BY <2>1, <2>2
<1>8. Max(Starts(r)) = Len(p)
  <2>1. \A x \in Starts(r) : (\A y \in Starts(r) : x >= y) => x = Len(p)
    BY <1>1, <1>2, <1>3
  <2>2. \A y \in Starts(r) : Len(p) >= y
    BY <1>1, <1>3
  <2>3. QED
    BY <1>2, <2>1, <2>2 DEF Max
<1>9. QED
  BY <1>6, <1>7, <1>8 DEF Rest

-----------------------------------------------------------------------------
(* Payloads: their number, and what they become with the next frame.       *)

(* Payloads can be counted.                                                *)
LEMMA PositionsFinite ==
  ASSUME NEW r \in Seq(Nat), NEW kind
  PROVE  /\ Positions(r, kind) \subseteq 1..Len(r)
         /\ IsFiniteSet(Positions(r, kind)) /\ Cardinality(Positions(r, kind)) \in Nat
<1>1. Len(r) \in Nat /\ Positions(r, kind) \subseteq 1..Len(r)
  BY DEF Positions
<1>2. IsFiniteSet(1..Len(r))
  BY <1>1, FS_Interval
<1>3. IsFiniteSet(Positions(r, kind))
  BY <1>1, <1>2, FS_Subset
<1>4. QED
  BY <1>1, <1>3, FS_CardinalityType

(* A decoded payload is as long as there are bytes of its kind.            *)
LEMMA PayloadCount ==
  ASSUME NEW r \in Seq(Nat), NEW out \in Seq(Nat), NEW kind, IsPayload(out, r, kind)
  PROVE  Cardinality(Positions(r, kind)) = Len(out)
<1> DEFINE at == Positions(r, kind)
<1>1. Len(out) \in Nat /\ Len(r) \in Nat /\ DOMAIN out = 1..Len(out)
  OBVIOUS
<1>0. \A i \in at : i \in Int
  BY <1>1, PositionsFinite
<1>2. PICK pos \in [DOMAIN out -> at] :
        /\ \A m, n \in DOMAIN out : m < n => pos[m] < pos[n]
        /\ \A i \in at : \E n \in DOMAIN out : pos[n] = i
  BY DEF IsPayload
<1> HIDE DEF at
<1>3. \A n \in 1..Len(out) : pos[n] \in Int
  BY <1>0, <1>1, <1>2
<1>4. \A m, n \in 1..Len(out) : pos[m] = pos[n] => m = n
  <2> SUFFICES ASSUME NEW m \in 1..Len(out), NEW n \in 1..Len(out), m # n
               PROVE  pos[m] # pos[n]
    OBVIOUS
  <2>1. m \in DOMAIN out /\ n \in DOMAIN out /\ pos[m] \in Int /\ pos[n] \in Int
    BY <1>1, <1>3
  <2>2. m < n \/ n < m
    BY <1>1
  <2>3. pos[m] < pos[n] \/ pos[n] < pos[m]
    BY <1>2, <2>1, <2>2
  <2>4. QED
    BY <2>1, <2>3
<1>5. pos \in Bijection(1..Len(out), at)
  <2>1. pos \in Injection(1..Len(out), at)
    <3>1. pos \in [1..Len(out) -> at] /\ DOMAIN pos = 1..Len(out)
      BY <1>1, <1>2
    <3>2. QED
      BY <3>1, <1>4 DEF Injection, IsInjective
  <2>2. pos \in Surjection(1..Len(out), at)
    BY <1>2 DEF Surjection
  <2>3. QED
    BY <2>1, <2>2 DEF Bijection
<1>6. ExistsBijection(1..Len(out), at)
  BY <1>5 DEF ExistsBijection
<1>7. QED
  BY <1>1, <1>6, FS_CountingElements DEF at

(* Output never shrinks.                                                   *)
LEMMA OutputPrefix ==
  ASSUME NEW p \in Seq(Nat), NEW r \in Seq(Nat), Begins(p, r)
  PROVE  Output(p) <= Output(r) /\ Output(p) \in Nat /\ Output(r) \in Nat
<1>1. ASSUME NEW kind
      PROVE  /\ Cardinality(Positions(p, kind)) <= Cardinality(Positions(r, kind))
             /\ Cardinality(Positions(p, kind)) \in Nat
             /\ Cardinality(Positions(r, kind)) \in Nat
  BY PositionsPrefix, PositionsFinite, FS_Subset
<1>2. QED
  BY <1>1 DEF Output

(* A frame of another kind leaves a payload alone.                         *)
LEMMA PayloadKept ==
  ASSUME NEW p \in Seq(Nat), NEW r \in Seq(Nat), Begins(p, r), NEW out, NEW kind,
         IsPayload(out, p, kind), Positions(r, kind) = Positions(p, kind)
  PROVE  IsPayload(out, r, kind)
<1>1. \A i \in Positions(p, kind) : r[i] = p[i]
  BY PositionsFinite DEF Begins
<1>2. PICK pos \in [DOMAIN out -> Positions(p, kind)] :
        /\ \A m, n \in DOMAIN out : m < n => pos[m] < pos[n]
        /\ \A i \in Positions(p, kind) : \E n \in DOMAIN out : pos[n] = i
        /\ \A n \in DOMAIN out : out[n] = p[pos[n]]
  BY DEF IsPayload
<1>3. \A n \in DOMAIN out : out[n] = r[pos[n]]
  BY <1>1, <1>2
<1>4. QED
  BY <1>2, <1>3 DEF IsPayload

(* A frame of its kind is appended to it.                                  *)
LEMMA PayloadGrows ==
  ASSUME NEW p \in Seq(Nat), NEW r \in Seq(Nat), AddsFrame(p, r), NEW kind,
         r[Len(p) + 1] = kind,
         NEW out \in Seq(Nat), NEW payload \in Seq(Nat), IsPayload(out, p, kind),
         Len(p) + Header + Len(payload) = Len(r),
         \A i \in 1..Len(payload) : payload[i] = r[Len(p) + Header + i]
  PROVE  IsPayload(out \o payload, r, kind)
<1> DEFINE k == Len(p)
           n1 == Len(out)
           n2 == Len(payload)
           both == out \o payload
           at == Positions(p, kind)
           new == (k + 2 + 1)..Len(r)
<1>1. /\ both \in Seq(Nat) /\ Len(both) = n1 + n2 /\ DOMAIN both = 1..(n1 + n2)
      /\ \A i \in 1..n1 : both[i] = out[i]
      /\ \A i \in 1..n2 : both[n1 + i] = payload[i]
  BY ConcatProperties
<1>2. k \in Nat /\ n1 \in Nat /\ n2 \in Nat /\ k + 2 + n2 = Len(r) /\ DOMAIN out = 1..n1
  BY DEF Header
<1>3. Positions(r, kind) = at \cup new
  BY AddsFramePositions DEF Header
<1>4. \A i \in at : i \in 1..k /\ r[i] = p[i]
  BY PositionsFinite DEF AddsFrame, Begins
<1>13. PICK pos \in [DOMAIN out -> at] :
        /\ \A m, n \in DOMAIN out : m < n => pos[m] < pos[n]
        /\ \A i \in at : \E n \in DOMAIN out : pos[n] = i
        /\ \A n \in DOMAIN out : out[n] = p[pos[n]]
  BY DEF IsPayload
<1>5. /\ \A n \in 1..n1 : pos[n] \in at
      /\ \A m, n \in 1..n1 : m < n => pos[m] < pos[n]
      /\ \A i \in at : \E n \in 1..n1 : pos[n] = i
      /\ \A n \in 1..n1 : out[n] = p[pos[n]]
  BY <1>2, <1>13
<1>6. \A i \in 1..n2 : payload[i] = r[k + 2 + i]
  BY DEF Header
<1> HIDE DEF k, n1, n2, both, at, new
<1> DEFINE pos2 == [n \in 1..(n1 + n2) |-> IF n <= n1 THEN pos[n] ELSE k + 2 + (n - n1)]
<1>7. \A n \in 1..(n1 + n2) :
        \/ n \in 1..n1 /\ pos2[n] = pos[n] /\ pos2[n] \in at /\ pos2[n] \in 1..k
        \/ n - n1 \in 1..n2 /\ pos2[n] = k + 2 + (n - n1) /\ n > n1
  <2> SUFFICES ASSUME NEW n \in 1..(n1 + n2)
               PROVE  \/ n \in 1..n1 /\ pos2[n] = pos[n] /\ pos2[n] \in at /\ pos2[n] \in 1..k
                      \/ n - n1 \in 1..n2 /\ pos2[n] = k + 2 + (n - n1) /\ n > n1
    OBVIOUS
  <2>1. pos2[n] = IF n <= n1 THEN pos[n] ELSE k + 2 + (n - n1)
    OBVIOUS
  <2> HIDE DEF pos2
  <2>2. CASE n <= n1
    <3>1. n \in 1..n1
      BY <1>2, <2>2
    <3>2. pos2[n] = pos[n] /\ pos[n] \in at
      BY <1>5, <2>1, <2>2, <3>1
    <3>3. QED
      BY <1>4, <3>1, <3>2
  <2>3. CASE ~(n <= n1)
    <3>1. n > n1 /\ n - n1 \in 1..n2
      BY <1>2, <2>3
    <3>2. QED
      BY <2>1, <2>3, <3>1
  <2>4. QED
    BY <2>2, <2>3
<1>8. \A n \in 1..(n1 + n2) : pos2[n] \in at \cup new
  <2> SUFFICES ASSUME NEW n \in 1..(n1 + n2) PROVE pos2[n] \in at \cup new
    OBVIOUS
  <2> HIDE DEF pos2
  <2>1. CASE n - n1 \in 1..n2 /\ pos2[n] = k + 2 + (n - n1) /\ n > n1
    <3>1. k + 2 + (n - n1) \in (k + 2 + 1)..Len(r)
      BY <1>2, <2>1
    <3>2. QED
      BY <2>1, <3>1 DEF new
  <2>2. QED
    BY <1>7, <2>1
<1>9. pos2 \in [1..(n1 + n2) -> at \cup new]
  BY <1>8
<1>10. \A m, n \in 1..(n1 + n2) : m < n => pos2[m] < pos2[n]
  <2> SUFFICES ASSUME NEW m \in 1..(n1 + n2), NEW n \in 1..(n1 + n2), m < n
               PROVE  pos2[m] < pos2[n]
    OBVIOUS
  <2> HIDE DEF pos2
  <2>1. CASE n <= n1
    <3>0. m \in 1..n1 /\ n \in 1..n1
      BY <1>2, <2>1
    <3>1. pos[m] < pos[n]
      BY <1>5, <3>0
    <3>2. pos2[m] = pos[m] /\ pos2[n] = pos[n]
      <4>1. ~(m > n1) /\ ~(n > n1)
        BY <1>2, <3>0
      <4>2. QED
        BY <1>7, <4>1
    <3>3. QED
      BY <3>1, <3>2
  <2>2. CASE n > n1 /\ m <= n1
    <3>1. m \in 1..n1 /\ pos2[m] \in 1..k
      <4>1. ~(m > n1)
        BY <1>2, <2>2
      <4>2. QED
        BY <1>7, <4>1
    <3>2. n \notin 1..n1
      BY <1>2, <2>2
    <3>3. n - n1 \in 1..n2 /\ pos2[n] = k + 2 + (n - n1)
      BY <1>7, <3>2
    <3>4. k + 2 + (n - n1) > k
      BY <1>2, <3>3
    <3>5. QED
      BY <1>2, <3>1, <3>3, <3>4
  <2>3. CASE n > n1 /\ m > n1
    BY <1>2, <1>7, <2>3
  <2>4. QED
    BY <1>2, <2>1, <2>2, <2>3
<1>11. \A i \in at \cup new : \E n \in 1..(n1 + n2) : pos2[n] = i
  <2>1. ASSUME NEW i \in at PROVE \E n \in 1..(n1 + n2) : pos2[n] = i
    <3>1. PICK n \in 1..n1 : pos[n] = i
      BY <1>5, <2>1
    <3>2. n \in 1..(n1 + n2) /\ n <= n1
      BY <1>2
    <3>4. pos2[n] = pos[n]
      BY <3>2
    <3>3. QED
      BY <3>1, <3>2, <3>4
  <2>2. ASSUME NEW i \in new PROVE \E n \in 1..(n1 + n2) : pos2[n] = i
    <3>1. i \in Int /\ k + 3 <= i /\ i <= k + 2 + n2
      BY <1>2, <2>2 DEF new
    <3>2. PICK n \in Int : n = n1 + (i - k - 2)
      BY <1>2, <3>1
    <3>3. n \in 1..(n1 + n2) /\ n \notin 1..n1 /\ k + 2 + (n - n1) = i
      BY <1>2, <3>1, <3>2
    <3> HIDE DEF pos2
    <3>4. pos2[n] = k + 2 + (n - n1)
      BY <1>7, <3>3
    <3>5. QED
      BY <3>3, <3>4
  <2>3. QED
    BY <2>1, <2>2
<1>12. \A n \in 1..(n1 + n2) : both[n] = r[pos2[n]]
  <2> SUFFICES ASSUME NEW n \in 1..(n1 + n2) PROVE both[n] = r[pos2[n]]
    OBVIOUS
  <2> HIDE DEF pos2
  <2>1. CASE n \in 1..n1 /\ pos2[n] = pos[n] /\ pos2[n] \in at
    BY <1>1, <1>4, <1>5, <2>1
  <2>2. CASE n - n1 \in 1..n2 /\ pos2[n] = k + 2 + (n - n1)
    <3>1. both[n1 + (n - n1)] = payload[n - n1]
      BY <1>1, <2>2
    <3>2. n1 + (n - n1) = n
      BY <1>2
    <3>3. payload[n - n1] = r[k + 2 + (n - n1)]
      BY <1>6, <2>2
    <3>4. QED
      BY <2>2, <3>1, <3>2, <3>3
  <2>3. QED
    BY <1>7, <2>1, <2>2
<1> HIDE DEF pos2
<1>14. QED
  <2>1. DOMAIN both = 1..(n1 + n2)
    BY <1>1
  <2>2. pos2 \in [DOMAIN both -> Positions(r, kind)]
    BY <1>3, <1>9, <2>1
  <2>3. /\ \A m, n \in DOMAIN both : m < n => pos2[m] < pos2[n]
        /\ \A i \in Positions(r, kind) : \E n \in DOMAIN both : pos2[n] = i
        /\ \A n \in DOMAIN both : both[n] = r[pos2[n]]
    BY <1>3, <1>10, <1>11, <1>12, <2>1
  <2>4. IsPayload(both, r, kind)
    BY <2>2, <2>3 DEF IsPayload
  <2>5. QED
    BY <2>4 DEF both

(* No bytes, no payload.                                                   *)
LEMMA NoPayload ==
  ASSUME NEW kind PROVE IsPayload(<<>>, <<>>, kind)
<1>1. Positions(<<>>, kind) = {}
  BY DEF Positions
<1>2. DOMAIN <<>> = {}
  OBVIOUS
<1>3. [x \in {} |-> x] \in [{} -> {}]
  OBVIOUS
<1>4. QED
  BY <1>1, <1>2, <1>3 DEF IsPayload

(* The payload of a single byte.                                           *)
LEMMA OnePayload ==
  ASSUME NEW r, NEW kind, NEW i, Positions(r, kind) = {i}
  PROVE  IsPayload(<<r[i]>>, r, kind)
<1> DEFINE pos == [n \in 1..1 |-> i]
           out == <<r[i]>>
<1>1. DOMAIN out = 1..1 /\ out[1] = r[i]
  OBVIOUS
<1>2. /\ pos \in [1..1 -> {i}]
      /\ \A m, n \in 1..1 : m < n => pos[m] < pos[n]
      /\ \A j \in {i} : \E n \in 1..1 : pos[n] = j
      /\ \A n \in 1..1 : out[n] = r[pos[n]]
  OBVIOUS
<1> HIDE DEF pos, out
<1>3. IsPayload(out, r, kind)
  BY <1>1, <1>2 DEF IsPayload
<1>4. QED
  BY <1>3 DEF out


-----------------------------------------------------------------------------
(* What the code has decoded once it took the frames of p.                 *)

Decoded(p, out, errs, exit, hasExited, count) ==
  /\ Len(p) \in Starts(p)
  /\ IsSound(p)
  /\ IsPayload(out, p, Stdout)
  /\ IsPayload(errs, p, Stderr)
  /\ count = Output(p)
  /\ hasExited <=> \E s \in Frames(p) : p[s + 1] = Exit
  /\ hasExited => exit = p[Len(p)]

(* The frames of p keep their kinds.                                       *)
LEMMA AddsFrameKinds ==
  ASSUME NEW p \in Seq(Nat), NEW q \in Seq(Nat), AddsFrame(p, q)
  PROVE  \A s \in Frames(q) :
           s = Len(p) \/ (s \in Frames(p) /\ q[s + 1] = p[s + 1])
<1>1. \A s \in Frames(p) : q[s + 1] = p[s + 1]
  BY FramesPrefix DEF AddsFrame
<1>2. QED
  BY <1>1, AddsFrameStarts

(* The kinds of which no frame was added keep their bytes.                 *)
LEMMA AddsFrameOther ==
  ASSUME NEW p \in Seq(Nat), NEW q \in Seq(Nat), AddsFrame(p, q), NEW kind,
         q[Len(p) + 1] # kind
  PROVE  Positions(q, kind) = Positions(p, kind)
<1>1. Positions(q, kind) =
           Positions(p, kind) \cup
             (IF q[Len(p) + 1] = kind THEN (Len(p) + Header + 1)..Len(q) ELSE {})
  BY AddsFramePositions
<1>2. QED
  BY <1>1

(* Before the first byte nothing is decoded.                               *)
LEMMA NothingDecoded ==
  ASSUME NEW exit PROVE Decoded(<<>>, <<>>, <<>>, exit, FALSE, 0)
<1> USE LimitsAssumption
<1>1. <<>> \in Seq(Nat) /\ Len(<<>>) = 0
  BY EmptySeq
<1>2. 0 \in Starts(<<>>)
  BY <1>1, StartsFacts
<1>3. Frames(<<>>) = {}
  <2>1. ASSUME NEW s \in Frames(<<>>) PROVE FALSE
    <3>1. s \in Nat /\ s + Header <= Len(<<>>)
      BY <1>1, FramesFacts
    <3>2. QED
      BY <1>1, <3>1 DEF Header
  <2>2. QED
    BY <2>1
<1>4. \A kind : Positions(<<>>, kind) = {}
  BY <1>3 DEF Positions
<1>5. Output(<<>>) = 0
  <2>1. Cardinality({}) = 0
    BY FS_EmptySet
  <2>2. Positions(<<>>, Stdout) = {} /\ Positions(<<>>, Stderr) = {}
    BY <1>4
  <2>3. Output(<<>>) = 0 + 0
    BY <2>1, <2>2 DEF Output
  <2>4. QED
    BY <2>3
<1>6. IsSound(<<>>)
  BY <1>3, <1>5 DEF IsSound
<1>7. IsPayload(<<>>, <<>>, Stdout) /\ IsPayload(<<>>, <<>>, Stderr)
  BY NoPayload
<1>8. QED
  BY <1>1, <1>2, <1>3, <1>5, <1>6, <1>7 DEF Decoded

(* A frame of output.                                                      *)
LEMMA OutputFrame ==
  ASSUME NEW p \in Seq(Nat), NEW q \in Seq(Nat), AddsFrame(p, q),
         NEW out \in Seq(Nat), NEW errs \in Seq(Nat), NEW exit, NEW count \in Nat,
         Decoded(p, out, errs, exit, FALSE, count),
         q[Len(p) + 1] \in {Stdout, Stderr},
         NEW payload \in Seq(Nat), Len(p) + Header + Len(payload) = Len(q),
         \A i \in 1..Len(payload) : payload[i] = q[Len(p) + Header + i]
  PROVE  /\ Output(q) = count + Len(payload)
         /\ count + Len(payload) <= MaxOutput =>
              Decoded(q, IF q[Len(p) + 1] = Stdout THEN out \o payload ELSE out,
                         IF q[Len(p) + 1] = Stderr THEN errs \o payload ELSE errs,
                      exit, FALSE, count + Len(payload))
<1> DEFINE kind == q[Len(p) + 1]
           other == IF kind = Stdout THEN Stderr ELSE Stdout
           longer == IF kind = Stdout THEN out ELSE errs
           same == IF kind = Stdout THEN errs ELSE out
<1>1. /\ longer \in Seq(Nat) /\ same \in Seq(Nat)
      /\ IsPayload(longer, p, kind) /\ IsPayload(same, p, other) /\ other # kind
  BY DEF Decoded, Stdout, Stderr
<1>15. (kind = Stdout /\ other = Stderr) \/ (kind = Stderr /\ other = Stdout)
  OBVIOUS
<1> HIDE DEF longer, same
<1>2. Begins(p, q)
  BY DEF AddsFrame
<1>3. IsPayload(longer \o payload, q, kind)
  BY <1>1, PayloadGrows
<1>4. Positions(q, other) = Positions(p, other)
  BY <1>1, AddsFrameOther
<1>5. IsPayload(same, q, other)
  BY <1>1, <1>2, <1>4, PayloadKept
<1>6. longer \o payload \in Seq(Nat) /\ Len(longer \o payload) = Len(longer) + Len(payload)
  BY <1>1, ConcatProperties
<1>7. /\ Cardinality(Positions(p, kind)) = Len(longer)
      /\ Cardinality(Positions(p, other)) = Len(same)
      /\ Cardinality(Positions(q, kind)) = Len(longer) + Len(payload)
      /\ Cardinality(Positions(q, other)) = Len(same)
  <2> HIDE DEF kind, other
  <2>1. /\ Cardinality(Positions(p, kind)) = Len(longer)
        /\ Cardinality(Positions(p, other)) = Len(same)
    BY <1>1, PayloadCount
  <2>2. Cardinality(Positions(q, kind)) = Len(longer \o payload)
    BY <1>3, <1>6, PayloadCount
  <2>3. Cardinality(Positions(q, other)) = Len(same)
    BY <1>1, <1>5, PayloadCount
  <2>4. QED
    BY <1>6, <2>1, <2>2, <2>3
<1>8. Output(p) = Len(longer) + Len(same) /\ Output(q) = Len(longer) + Len(payload) + Len(same)
  <2>1. Len(longer) \in Nat /\ Len(same) \in Nat /\ Len(payload) \in Nat
    BY <1>1, LenProperties
  <2> HIDE DEF kind, other
  <2>2. \A r : \/ Output(r) = Cardinality(Positions(r, kind)) + Cardinality(Positions(r, other))
               \/ Output(r) = Cardinality(Positions(r, other)) + Cardinality(Positions(r, kind))
    BY <1>15 DEF Output
  <2>3. /\ Output(p) = Len(longer) + Len(same) \/ Output(p) = Len(same) + Len(longer)
        /\ \/ Output(q) = Len(longer) + Len(payload) + Len(same)
           \/ Output(q) = Len(same) + (Len(longer) + Len(payload))
    BY <1>7, <2>2
  <2>4. QED
    BY <2>1, <2>3
<1>9. Output(q) = count + Len(payload)
  <2>1. Len(longer) \in Nat /\ Len(same) \in Nat /\ Len(payload) \in Nat
    BY <1>1, LenProperties
  <2>2. QED
    BY <1>8, <2>1 DEF Decoded
<1>10. \A s \in Frames(q) : q[s + 1] = kind \/ (s \in Frames(p) /\ q[s + 1] = p[s + 1])
  BY AddsFrameKinds
<1>11. kind # Exit /\ \A s \in Frames(p) : p[s + 1] \in {Stdout, Stderr} /\ p[s + 1] # Exit
  BY DEF Decoded, IsSound, Stdout, Stderr, Exit
<1>12. \A s \in Frames(q) : q[s + 1] \in {Stdout, Stderr} /\ q[s + 1] # Exit
  BY <1>10, <1>11
<1>13. ASSUME count + Len(payload) <= MaxOutput
       PROVE  Decoded(q, IF kind = Stdout THEN out \o payload ELSE out,
                         IF kind = Stderr THEN errs \o payload ELSE errs,
                      exit, FALSE, count + Len(payload))
  <2>1. Len(q) \in Starts(q)
    BY AddsFrameStarts
  <2>2. IsSound(q)
    BY <1>9, <1>12, <1>13 DEF IsSound
  <2>3. /\ IsPayload(IF kind = Stdout THEN out \o payload ELSE out, q, Stdout)
        /\ IsPayload(IF kind = Stderr THEN errs \o payload ELSE errs, q, Stderr)
    BY <1>3, <1>5 DEF longer, same, Stdout, Stderr
  <2>4. QED
    BY <1>9, <1>12, <2>1, <2>2, <2>3 DEF Decoded
<1>14. QED
  BY <1>9, <1>13

(* The exit frame.                                                         *)
LEMMA ExitFrame ==
  ASSUME NEW p \in Seq(Nat), NEW q \in Seq(Nat), AddsFrame(p, q),
         NEW out, NEW errs, NEW exit, NEW count,
         Decoded(p, out, errs, exit, FALSE, count),
         q[Len(p) + 1] = Exit, q[Len(p) + 2] = 1
  PROVE  /\ Len(q) = Len(p) + Header + 1
         /\ Decoded(q, out, errs, q[Len(q)], TRUE, count)
<1>1. Len(p) \in Nat /\ Begins(p, q) /\ Len(q) = NextStart(q, Len(p))
  BY DEF AddsFrame
<1>2. Len(q) = Len(p) + Header + 1
  BY <1>1 DEF NextStart
<1>3. Len(p) \in Frames(q) /\ Len(q) \in Starts(q)
  BY AddsFrameStarts
<1>4. \A s \in Frames(q) : s = Len(p) \/ (s \in Frames(p) /\ q[s + 1] = p[s + 1])
  BY AddsFrameKinds
<1>5. \A s \in Frames(p) : p[s + 1] \in {Stdout, Stderr} /\ p[s + 1] # Exit
  BY DEF Decoded, IsSound
<1>6. /\ Positions(q, Stdout) = Positions(p, Stdout)
      /\ Positions(q, Stderr) = Positions(p, Stderr)
  BY AddsFrameOther DEF Stdout, Stderr, Exit
<1>7. Output(q) = Output(p)
  BY <1>6 DEF Output
<1>8. IsSound(q)
  <2>1. ASSUME NEW s \in Frames(q)
        PROVE  /\ q[s + 1] \in {Stdout, Stderr, Exit}
               /\ q[s + 1] = Exit => q[s + 2] = 1 /\ s + Header + 1 = Len(q)
    BY <1>2, <1>4, <1>5
  <2>2. QED
    BY <1>7, <2>1 DEF IsSound, Decoded
<1>9. IsPayload(out, q, Stdout) /\ IsPayload(errs, q, Stderr)
  BY <1>1, <1>6, PayloadKept DEF Decoded
<1>10. QED
  BY <1>2, <1>3, <1>7, <1>8, <1>9 DEF Decoded

-----------------------------------------------------------------------------
(* What makes a stream one that no further byte can save.                  *)

(* A frame of an unknown kind, or an exit that has not one byte.           *)
LEMMA BadFrame ==
  ASSUME NEW r, NEW s \in Frames(r),
         r[s + 1] \notin {Stdout, Stderr} /\ ~(r[s + 1] = Exit /\ r[s + 2] = 1)
  PROVE  ~IsExtendable(r)
<1>1. ~IsSound(r)
  BY DEF IsSound
<1>2. QED
  BY <1>1 DEF IsExtendable

(* More than MaxOutput bytes in the frames so far.                         *)
LEMMA TooMuchOutput ==
  ASSUME NEW p \in Seq(Nat), NEW r \in Seq(Nat), Begins(p, r), Output(p) > MaxOutput
  PROVE  ~IsExtendable(r)
<1>1. Output(p) <= Output(r) /\ Output(p) \in Nat /\ Output(r) \in Nat
  BY OutputPrefix
<1>2. ~IsSound(r)
  BY <1>1, LimitsAssumption DEF IsSound
<1>3. QED
  BY <1>2 DEF IsExtendable

(* Anything after the exit frame.                                          *)
LEMMA BytesAfterExit ==
  ASSUME NEW p \in Seq(Nat), NEW r \in Seq(Nat), Begins(p, r), Len(p) < Len(r),
         NEW out, NEW errs, NEW exit, NEW count, Decoded(p, out, errs, exit, TRUE, count)
  PROVE  ~IsExtendable(r)
<1>1. PICK s \in Frames(p) : p[s + 1] = Exit
  BY DEF Decoded
<1>2. s + Header + 1 = Len(p)
  BY <1>1 DEF Decoded, IsSound
<1>3. s \in Frames(r) /\ r[s + 1] = Exit
  BY <1>1, FramesPrefix
<1>4. s + Header + 1 # Len(r)
  BY <1>2
<1>5. ~IsSound(r)
  BY <1>3, <1>4 DEF IsSound
<1>6. QED
  BY <1>5 DEF IsExtendable

(* The last frame's length is known to be too large before it is complete. *)
LEMMA LongFrame ==
  ASSUME NEW p \in Seq(Nat), NEW r \in Seq(Nat), AddsNoFrame(p, r),
         Len(p) + Header <= Len(r), r[Len(p) + 2] > MaxOutput
  PROVE  ~IsExtendable(r)
<1> USE LimitsAssumption
<1>1. Len(p) \in Nat /\ Len(r) \in Nat /\ r[Len(p) + 2] \in Nat
  BY NextFacts, LenProperties
<1>2. Rest(r) = SubSeq(r, Len(p) + 1, Len(r))
  BY AddsNoFrameFacts
<1>3. /\ Len(Rest(r)) = Len(r) - Len(p) /\ Len(Rest(r)) >= Header
      /\ Rest(r)[2] = r[Len(p) + 2]
  <2>1. \A i \in (Len(p) + 1)..Len(r) : r[i] \in Nat
    BY <1>1, ElementOfSeq
  <2>2. QED
    BY <1>1, <1>2, <2>1, SubSeqProperties DEF Header
<1>4. Output(r) \in Nat
  BY PositionsFinite DEF Output
<1>5. Rest(r)[2] # 1 /\ ~(Output(r) + Rest(r)[2] <= MaxOutput)
  BY <1>1, <1>3, <1>4
<1>6. QED
  BY <1>3, <1>5 DEF IsExtendable

-----------------------------------------------------------------------------
(* The bytes received, cut after the frames taken: the next frame.         *)

(* The elements of a concatenation.                                        *)
LEMMA Joined ==
  ASSUME NEW p \in Seq(Nat), NEW head \in Seq(Nat), NEW left \in Seq(Nat)
  PROVE  /\ p \o head \in Seq(Nat) /\ Len(p \o head) = Len(p) + Len(head)
         /\ \A i \in 1..Len(p) : (p \o head)[i] = p[i]
         /\ \A i \in 1..Len(head) : (p \o head)[Len(p) + i] = head[i]
         /\ (p \o head) \o left = p \o (head \o left)
<1> DEFINE q == p \o head
<1>1. /\ q \in Seq(Nat) /\ Len(q) = Len(p) + Len(head)
      /\ \A i \in 1..Len(p) + Len(head) : q[i] = IF i <= Len(p) THEN p[i] ELSE head[i - Len(p)]
  BY ConcatProperties
<1>2. Len(p) \in Nat /\ Len(head) \in Nat
  BY LenProperties
<1>3. (p \o head) \o left = p \o (head \o left)
  BY ConcatAssociative
<1> HIDE DEF q
<1>4. ASSUME NEW i \in 1..Len(p) PROVE q[i] = p[i]
  BY <1>1, <1>2
<1>5. ASSUME NEW i \in 1..Len(head) PROVE q[Len(p) + i] = head[i]
  <2>1. Len(p) + i \in 1..Len(p) + Len(head) /\ ~(Len(p) + i <= Len(p)) /\ Len(p) + i - Len(p) = i
    BY <1>2
  <2>2. QED
    BY <1>1, <2>1
<1>6. QED
  BY <1>1, <1>3, <1>4, <1>5 DEF q

(* The complete frame at the beginning of rest is what p lacks.            *)
LEMMA NextFrame ==
  ASSUME NEW p \in Seq(Nat), NEW rest \in Seq(Nat), Len(p) \in Starts(p),
         Len(rest) >= Header, rest[2] <= Len(rest) - Header
  PROVE  LET n == rest[2]
             payload == SubSeq(rest, Header + 1, Header + n)
             left == SubSeq(rest, Header + n + 1, Len(rest))
         IN  /\ left \in Seq(Nat) /\ payload \in Seq(Nat)
             /\ n \in Nat /\ Len(payload) = n
             /\ \E q \in Seq(Nat) :
                  /\ p \o rest = q \o left
                  /\ AddsFrame(p, q) /\ Begins(q, p \o rest)
                  /\ q[Len(p) + 1] = rest[1] /\ q[Len(p) + 2] = n
                  /\ Len(p) + Header + Len(payload) = Len(q)
                  /\ \A i \in 1..Len(payload) : payload[i] = q[Len(p) + Header + i]
<1> DEFINE n == rest[2]
           head == SubSeq(rest, 1, 2 + n)
           q == p \o head
           payload == SubSeq(rest, 2 + 1, 2 + n)
           left == SubSeq(rest, 2 + n + 1, Len(rest))
           k == Len(p)
           m == Len(rest)
<1>1. Header = 2
  BY DEF Header
<1>2. k \in Nat /\ m \in Nat /\ m >= 2 /\ n <= m - 2
  BY <1>1, LenProperties
<1>3. \A i \in 1..m : rest[i] \in Nat
  BY ElementOfSeq
<1>4. n \in Nat
  BY <1>2, <1>3
<1> HIDE DEF n
<1>5. /\ head \in Seq(Nat) /\ Len(head) = 2 + n
      /\ \A i \in 1..(2 + n) : head[i] = rest[i]
  <2>1. \A i \in 1..(2 + n) : rest[i] \in Nat
    BY <1>2, <1>3, <1>4
  <2>2. /\ head \in Seq(Nat)
        /\ Len(head) = IF 1 <= 2 + n THEN (2 + n) - 1 + 1 ELSE 0
        /\ \A i \in 1..((2 + n) - 1 + 1) : head[i] = rest[1 + i - 1]
    BY <1>4, <2>1, SubSeqProperties
  <2> HIDE DEF head
  <2>3. QED
    BY <1>4, <2>2
<1>6. /\ payload \in Seq(Nat) /\ Len(payload) = n
      /\ \A i \in 1..n : payload[i] = rest[2 + i]
  <2>1. \A i \in (2 + 1)..(2 + n) : rest[i] \in Nat
    BY <1>2, <1>3, <1>4
  <2>2. /\ payload \in Seq(Nat)
        /\ Len(payload) = IF 2 + 1 <= 2 + n THEN (2 + n) - (2 + 1) + 1 ELSE 0
        /\ \A i \in 1..((2 + n) - (2 + 1) + 1) : payload[i] = rest[(2 + 1) + i - 1]
    BY <1>4, <2>1, SubSeqProperties
  <2> HIDE DEF payload
  <2>3. QED
    BY <1>4, <2>2
<1>7. left \in Seq(Nat)
  <2>1. \A i \in (2 + n + 1)..m : rest[i] \in Nat
    BY <1>2, <1>3, <1>4
  <2>2. QED
    BY <1>2, <1>4, <2>1, SubSeqProperties
<1>8. rest = head \o left
  <2>1. 1 \in 1..(m + 1) /\ 2 + n \in (1 - 1)..m /\ m \in (2 + n)..m
    BY <1>2, <1>4
  <2>2. SubSeq(rest, 1, 2 + n) \o SubSeq(rest, 2 + n + 1, m) = SubSeq(rest, 1, m)
    BY <2>1, ConcatAdjacentSubSeq
  <2>3. QED
    BY <2>2, SubSeqFull
<1> HIDE DEF head, left, payload, k, m
<1>9. p \o rest = q \o left
  <2>1. (p \o head) \o left = p \o (head \o left)
    <3>1. \A h, l \in Seq(Nat) : (p \o h) \o l = p \o (h \o l)
      BY Joined
    <3>2. head \in Seq(Nat) /\ left \in Seq(Nat)
      BY <1>5, <1>7
    <3>3. QED
      BY <3>1, <3>2, Zenon
  <2>2. p \o rest = p \o (head \o left)
    BY <1>8, Zenon
  <2>3. QED
    BY <2>1, <2>2, Zenon
<1>10. q \in Seq(Nat) /\ Len(q) = k + (2 + n)
  BY <1>5, Joined, Zenon DEF k
<1>19. /\ \A i \in 1..k : q[i] = p[i]
       /\ \A i \in 1..(2 + n) : q[k + i] = head[i]
  <2>1. /\ \A i \in 1..Len(p) : q[i] = p[i]
        /\ \A i \in 1..Len(head) : q[Len(p) + i] = head[i]
    BY <1>5, Joined, Zenon
  <2>2. Len(head) = 2 + n
    BY <1>5
  <2>3. QED
    BY <2>1, <2>2, Zenon DEF k
<1>11. q \o left \in Seq(Nat) /\ Begins(q, q \o left)
  <2> HIDE DEF q
  <2>1. /\ q \o left \in Seq(Nat) /\ Len(q \o left) = Len(q) + Len(left)
        /\ \A i \in 1..(Len(q) + Len(left)) :
             (q \o left)[i] = IF i <= Len(q) THEN q[i] ELSE left[i - Len(q)]
    BY <1>7, <1>10, ConcatProperties
  <2>2. Len(q) \in Nat /\ Len(left) \in Nat
    BY <1>7, <1>10, LenProperties
  <2>3. QED
    BY <2>1, <2>2 DEF Begins
<1> HIDE DEF q
<1>12. /\ \A i \in 1..k : q[i] = p[i]
       /\ \A i \in 1..(2 + n) : q[k + i] = rest[i]
  BY <1>5, <1>19, Zenon
<1>13. q[k + 1] = rest[1] /\ q[k + 2] = n
  <2>1. 1 \in 1..(2 + n) /\ 2 \in 1..(2 + n)
    BY <1>4
  <2>2. QED
    BY <1>12, <2>1 DEF n
<1>14. \A i \in 1..n : payload[i] = q[k + 2 + i]
  <2>1. ASSUME NEW i \in 1..n PROVE 2 + i \in 1..(2 + n) /\ k + (2 + i) = k + 2 + i
    BY <1>2, <1>4
  <2>2. QED
    BY <1>6, <1>12, <2>1
<1>15. AddsFrame(p, q)
  <2>1. Begins(p, q)
    BY <1>2, <1>4, <1>10, <1>12 DEF Begins, k
  <2>2. NextStart(q, k) = k + 2 + n
    BY <1>1, <1>13 DEF NextStart
  <2>3. QED
    BY <1>1, <1>2, <1>4, <1>10, <2>1, <2>2 DEF AddsFrame, k
<1>16. Len(p) + Header + Len(payload) = Len(q)
  BY <1>1, <1>2, <1>4, <1>6, <1>10 DEF k
<1>17. /\ AddsFrame(p, q) /\ Begins(q, p \o rest)
       /\ q[Len(p) + 1] = rest[1] /\ q[Len(p) + 2] = n
       /\ \A i \in 1..Len(payload) : payload[i] = q[Len(p) + Header + i]
  BY <1>1, <1>6, <1>9, <1>11, <1>13, <1>14, <1>15 DEF k
<1>18. \E z \in Seq(Nat) :
          /\ p \o rest = z \o left
          /\ AddsFrame(p, z) /\ Begins(z, p \o rest)
          /\ z[Len(p) + 1] = rest[1] /\ z[Len(p) + 2] = n
          /\ Len(p) + Header + Len(payload) = Len(z)
          /\ \A i \in 1..Len(payload) : payload[i] = z[Len(p) + Header + i]
  BY <1>9, <1>10, <1>16, <1>17, Zenon
<1>20. QED
  BY <1>1, <1>4, <1>6, <1>7, <1>18, Zenon DEF n, payload, left, m

(* What is left is no complete frame.                                      *)
IsIncomplete(rest) == Len(rest) >= Header => Len(rest) - Header < rest[2]

(* Without one, rest is no frame, and is left over.                        *)
LEMMA NoNextFrame ==
  ASSUME NEW p \in Seq(Nat), NEW rest \in Seq(Nat), Len(p) \in Starts(p), IsIncomplete(rest)
  PROVE  /\ p \o rest \in Seq(Nat) /\ AddsNoFrame(p, p \o rest)
         /\ Len(p \o rest) = Len(p) + Len(rest)
         /\ Len(rest) >= Header => (p \o rest)[Len(p) + 2] = rest[2]
         /\ rest # <<>> => Rest(p \o rest) # <<>>
<1> DEFINE r == p \o rest
<1>1. /\ r \in Seq(Nat) /\ Len(r) = Len(p) + Len(rest)
      /\ \A i \in 1..(Len(p) + Len(rest)) : r[i] = IF i <= Len(p) THEN p[i] ELSE rest[i - Len(p)]
  BY ConcatProperties
<1>2. Len(p) \in Nat /\ Len(rest) \in Nat /\ Header = 2
  BY LenProperties DEF Header
<1> HIDE DEF r
<1>3. Begins(p, r)
  BY <1>1, <1>2 DEF Begins
<1>4. ASSUME Len(rest) >= Header PROVE r[Len(p) + 2] = rest[2]
  <2>1. Len(p) + 2 \in 1..(Len(p) + Len(rest)) /\ ~(Len(p) + 2 <= Len(p)) /\ Len(p) + 2 - Len(p) = 2
    BY <1>2, <1>4
  <2>2. QED
    BY <1>1, <2>1
<1>5. ASSUME Len(p) + Header <= Len(r) PROVE NextStart(r, Len(p)) > Len(r)
  <2>1. Len(rest) >= Header
    BY <1>1, <1>2, <1>5
  <2>2. rest[2] \in Nat
    BY <1>2, <2>1, ElementOfSeq
  <2>3. NextStart(r, Len(p)) = Len(p) + 2 + rest[2] /\ Len(rest) - 2 < rest[2]
    BY <1>2, <1>4, <2>1 DEF NextStart, IsIncomplete
  <2>4. QED
    BY <1>1, <1>2, <2>2, <2>3
<1>6. AddsNoFrame(p, r)
  BY <1>3, <1>5 DEF AddsNoFrame
<1>7. ASSUME rest # <<>> PROVE Rest(r) # <<>>
  <2>1. Len(rest) >= 1
    BY <1>2, <1>7, EmptySeq
  <2>2. Rest(r) = SubSeq(r, Len(p) + 1, Len(r))
    BY <1>1, <1>6, AddsNoFrameFacts
  <2>3. Len(Rest(r)) = Len(r) - (Len(p) + 1) + 1
    <3>1. \A i \in (Len(p) + 1)..Len(r) : r[i] \in Nat
      BY <1>1, <1>2, ElementOfSeq
    <3>2. Len(SubSeq(r, Len(p) + 1, Len(r))) =
            IF Len(p) + 1 <= Len(r) THEN Len(r) - (Len(p) + 1) + 1 ELSE 0
      BY <1>1, <1>2, <3>1, SubSeqProperties
    <3>3. Len(p) + 1 <= Len(r)
      BY <1>1, <1>2, <2>1
    <3>4. QED
      BY <2>2, <3>2, <3>3
  <2>4. Len(Rest(r)) >= 1
    BY <1>1, <1>2, <2>1, <2>3
  <2>5. Len(<<>>) = 0
    BY EmptySeq
  <2>6. QED
    BY <2>4, <2>5
<1>8. QED
  BY <1>1, <1>4, <1>6, <1>7 DEF r

(* A stream that ended with its exit frame.                                *)
LEMMA EndsWithExit ==
  ASSUME NEW r \in Seq(Nat), NEW out, NEW errs, NEW exit, NEW count,
         Decoded(r, out, errs, exit, TRUE, count)
  PROVE  IsTranscript(r) /\ IsPayload(<<exit>>, r, Exit)
<1>1. Len(r) \in Nat /\ Begins(r, r)
  BY LenProperties DEF Begins
<1>2. AddsNoFrame(r, r)
  BY <1>1 DEF AddsNoFrame, Decoded, Header
<1>3. Rest(r) = <<>>
  <2>1. Rest(r) = SubSeq(r, Len(r) + 1, Len(r))
    BY <1>2, AddsNoFrameFacts
  <2>2. SubSeq(r, Len(r) + 1, Len(r)) = <<>>
    BY <1>1, SubSeqEmpty
  <2>3. QED
    BY <2>1, <2>2
<1>4. IsTranscript(r)
  BY <1>3 DEF Decoded, IsTranscript
<1>5. PICK s \in Frames(r) : r[s + 1] = Exit
  BY DEF Decoded
<1>6. ASSUME NEW t \in Frames(r), r[t + 1] = Exit
      PROVE  t + Header + 1 = Len(r) /\ NextStart(r, t) = Len(r)
  <2>1. r[t + 2] = 1 /\ t + Header + 1 = Len(r)
    BY <1>6 DEF Decoded, IsSound
  <2>2. QED
    BY <2>1 DEF NextStart
<1>7. Positions(r, Exit) = {Len(r)}
  <2>1. ASSUME NEW i \in Positions(r, Exit) PROVE i = Len(r)
    <3>1. PICK t \in Frames(r) : r[t + 1] = Exit /\ i \in (t + Header + 1)..NextStart(r, t)
      BY DEF Positions
    <3>2. QED
      BY <1>1, <1>6, <3>1
  <2>2. Len(r) \in Positions(r, Exit)
    <3>1. s \in Nat
      BY FramesFacts
    <3>2. Len(r) \in 1..Len(r) /\ Len(r) \in (s + Header + 1)..NextStart(r, s)
      BY <1>1, <1>5, <1>6, <3>1 DEF Header
    <3>3. QED
      BY <1>5, <3>2 DEF Positions
  <2>3. QED
    BY <2>1, <2>2
<1>8. IsPayload(<<r[Len(r)]>>, r, Exit)
  BY <1>7, OnePayload
<1>9. exit = r[Len(r)]
  BY DEF Decoded
<1>10. QED
  BY <1>4, <1>8, <1>9

-----------------------------------------------------------------------------
(* Types.                                                                  *)

States == {"dial", "stls", "tls", "cnxn", "open", "reading", "feeding", "acking",
           "closing", "return", "done"}
Errors == {"none", "network", "auth", "protocol", "frame", "incomplete", "exit", "deadline"}

(* What the variables of runShell and shellStream hold.                    *)
ShellTypeOK ==
  /\ pc \in States /\ err \in Errors /\ exited \in BOOLEAN /\ expired \in BOOLEAN
  /\ received \in Seq(Nat) /\ pending \in Seq(Nat)
  /\ stdout \in Seq(Nat) /\ stderr \in Seq(Nat)
  /\ code \in Nat /\ total \in Nat /\ packets \in Nat

(* A packet is a sequence of bytes of at most MaxPayload.                  *)
LEMMA DataType ==
  ASSUME NEW data \in SeqOf(Bytes, MaxPayload)
  PROVE  data \in Seq(Nat) /\ Len(data) \in Nat /\ Len(data) <= MaxPayload
<1> USE LimitsAssumption
<1>1. PICK m \in 0..MaxPayload : data \in [1..m -> Bytes]
  BY DEF SeqOf
<1>2. m \in Nat /\ m <= MaxPayload /\ Bytes \subseteq Nat
  BY DEF Bytes
<1>3. data \in Seq(Bytes)
  BY <1>1, <1>2, SeqDef
<1>4. data \in Seq(Nat)
  BY <1>2, <1>3, SeqMonotonic
<1>5. Len(data) \in Nat /\ 1..Len(data) = 1..m
  BY <1>1, <1>3, LenProperties
<1>6. Len(data) = m
  <2>1. Len(data) < m => m \in 1..m /\ m \notin 1..Len(data)
    BY <1>2, <1>5
  <2>2. m < Len(data) => Len(data) \in 1..Len(data) /\ Len(data) \notin 1..m
    BY <1>2, <1>5
  <2>3. QED
    BY <1>2, <1>5, <2>1, <2>2
<1>7. QED
  BY <1>2, <1>4, <1>5, <1>6

(* TakeFrame gets a frame that pending holds.                              *)
LEMMA CompleteFrame ==
  ASSUME pending \in Seq(Nat), Len(pending) >= Header, ~(Len(pending) - Header < pending[2])
  PROVE  /\ pending[1] \in Nat /\ pending[2] \in Nat /\ pending[2] <= Len(pending) - Header
         /\ LET n == pending[2]
                payload == SubSeq(pending, Header + 1, Header + n)
            IN  /\ payload \in Seq(Nat) /\ Len(payload) = n
                /\ SubSeq(pending, Header + n + 1, Len(pending)) \in Seq(Nat)
                /\ n = 1 => payload[1] \in Nat
<1>1. Len(pending) \in Nat /\ 1 \in 1..Len(pending) /\ 2 \in 1..Len(pending)
  BY LenProperties DEF Header
<1>2. pending[1] \in Nat /\ pending[2] \in Nat /\ pending[2] <= Len(pending) - Header
  BY <1>1, ElementOfSeq DEF Header
<1>3. <<>> \in Seq(Nat) /\ Len(<<>>) = 0 /\ 0 \in Starts(<<>>)
  <2>1. <<>> \in Seq(Nat) /\ Len(<<>>) = 0
    BY EmptySeq
  <2>2. QED
    BY <2>1, StartsFacts
<1> DEFINE n == pending[2]
           payload == SubSeq(pending, Header + 1, Header + n)
           left == SubSeq(pending, Header + n + 1, Len(pending))
<1>4. payload \in Seq(Nat) /\ Len(payload) = n /\ left \in Seq(Nat)
  BY <1>2, <1>3, NextFrame, Zenon
<1> HIDE DEF n, payload, left
<1>5. ASSUME n = 1 PROVE payload[1] \in Nat
  <2>1. payload \in Seq(Nat) /\ 1 \in 1..Len(payload)
    BY <1>4, <1>5
  <2>2. QED
    BY <2>1, ElementOfSeq
<1>6. QED
  BY <1>2, <1>4, <1>5, Zenon DEF n, payload, left

(* The types hold at first.                                                *)
LEMMA InitTyped == Init => ShellTypeOK
<1>1. <<>> \in Seq(Nat) /\ 0 \in Nat
  BY EmptySeq
<1>2. QED
  BY <1>1, Zenon DEF Init, ShellTypeOK, States, Errors

(* Every step keeps the types.                                             *)
LEMMA NextTyped == ShellTypeOK /\ [Next]_vars => ShellTypeOK'
<1> SUFFICES ASSUME ShellTypeOK, [Next]_vars PROVE ShellTypeOK'
  OBVIOUS
<1> USE DEF ShellTypeOK
<1>1. CASE Dial
  BY <1>1 DEF Dial, Goes, stream, States, Errors
<1>2. CASE Connect
  <2>1. pc \in {"stls", "tls", "cnxn", "open"} /\ Following[pc] \in States
    BY <1>2 DEF Connect, Following, States
  <2>2. QED
    BY <1>2, <2>1 DEF Connect, Goes, Fails, IOError, BadPacket, stream, States, Errors
<1>3. CASE IOFails
  BY <1>3 DEF IOFails, Fails, IOError, stream, States, Errors
<1>4. CASE TooManyPackets
  BY <1>4 DEF TooManyPackets, Fails, stream, States, Errors
<1>5. CASE ReadBad
  BY <1>5 DEF ReadBad, Fails, stream, States, Errors
<1>6. CASE ReadClose
  BY <1>6 DEF ReadClose, Goes, stream, States, Errors
<1>7. ASSUME NEW data \in SeqOf(Bytes, MaxPayload), ReadWrite(data) PROVE ShellTypeOK'
  <2>1. data \in Seq(Nat)
    BY DataType
  <2>2. received \o data \in Seq(Nat) /\ pending \o data \in Seq(Nat)
    BY <2>1, ConcatProperties
  <2>3. received' \in Seq(Nat) /\ pending' \in Seq(Nat)
    BY <1>7, <2>2 DEF ReadWrite, Goes, Fails
  <2>4. pc' \in States /\ err' \in Errors /\ packets' \in Nat
    BY <1>7 DEF ReadWrite, Goes, Fails, States, Errors
  <2>5. UNCHANGED <<stdout, stderr, code, exited, total, expired>>
    BY <1>7 DEF ReadWrite
  <2>6. QED
    BY <2>3, <2>4, <2>5
<1>8. CASE Feed
  <2>1. pc' \in States /\ err' \in Errors /\ exited' \in BOOLEAN /\ expired' \in BOOLEAN
        /\ received' = received /\ packets' = packets
    BY <1>8 DEF Feed, TakeFrame, Goes, Fails, stream, States, Errors
  <2>2. CASE UNCHANGED stream
    BY <2>1, <2>2 DEF stream
  <2>3. CASE ~UNCHANGED stream
    <3> DEFINE n == pending[2]
               payload == SubSeq(pending, Header + 1, Header + n)
    <3>1. /\ Len(pending) >= Header /\ ~(Len(pending) - Header < n)
          /\ TakeFrame(pending[1], payload)
      <4>1. Len(pending) \in Nat /\ Header \in Nat
        BY LenProperties DEF Header
      <4>2. QED
        BY <1>8, <2>3, <4>1 DEF Feed
    <3>2. /\ payload \in Seq(Nat) /\ Len(payload) = n /\ n \in Nat
          /\ SubSeq(pending, Header + n + 1, Len(pending)) \in Seq(Nat)
          /\ n = 1 => payload[1] \in Nat
      BY <3>1, CompleteFrame
    <3>3. stdout \o payload \in Seq(Nat) /\ stderr \o payload \in Seq(Nat)
      BY <3>2, ConcatProperties
    <3> HIDE DEF payload, n
    <3>4. total + Len(payload) \in Nat
      BY <3>2
    <3>5. Header + 2 = Header + 1 + 1
      BY DEF Header
    <3>6. Len(payload) = 1 => SubSeq(pending, Header + 2, Len(pending)) \in Seq(Nat)
      BY <3>2, <3>5
    <3>7. pending' \in Seq(Nat)
      BY <3>1, <3>2, <3>6 DEF TakeFrame, stream
    <3>8. stdout' \in Seq(Nat) /\ stderr' \in Seq(Nat)
      BY <3>1, <3>3 DEF TakeFrame, stream
    <3>9. code' \in Nat /\ total' \in Nat
      BY <3>1, <3>2, <3>4 DEF TakeFrame, stream
    <3>10. QED
      BY <2>1, <3>7, <3>8, <3>9
  <2>4. QED
    BY <2>2, <2>3
<1>9. CASE Acknowledge
  BY <1>9 DEF Acknowledge, Goes, stream, States, Errors
<1>10. CASE Finish
  BY <1>10 DEF Finish, stream, States, Errors
<1>11. CASE Expire
  BY <1>11 DEF Expire, stream
<1>12. CASE Return
  BY <1>12 DEF Return, stream, States, Errors
<1>13. CASE UNCHANGED vars
  BY <1>13 DEF vars, stream
<1>14. QED
  BY <1>1, <1>2, <1>3, <1>4, <1>5, <1>6, <1>7, <1>8, <1>9, <1>10, <1>11, <1>12, <1>13
     DEF Next

(* The streams and counters of a call keep their types whatever the peer   *)
(* sends: no frame is cut beyond what pending holds (feed, shell.go:350).  *)
THEOREM ShellTyped == Spec => []ShellTypeOK
<1>1. Init => ShellTypeOK
  BY InitTyped
<1>2. ShellTypeOK /\ [Next]_vars => ShellTypeOK'
  BY NextTyped
<1>3. QED
  BY <1>1, <1>2, PTL DEF Spec

-----------------------------------------------------------------------------
(* The invariant.  While the call runs, the bytes received are frames that *)
(* have been taken, and what pending holds; outside feed's loop that is    *)
(* the beginning of one frame that may still come within maxOutput.        *)

IsDecoded ==
  \E p \in Seq(Nat) :
    received = p \o pending /\ Decoded(p, stdout, stderr, code, exited, total)

IsShort(rest) == IsIncomplete(rest) /\ (Len(rest) >= Header => rest[2] <= MaxOutput)

ShellInv ==
  /\ pc \notin {"return", "done"} => IsDecoded
  /\ pc \notin {"feeding", "return", "done"} => IsShort(pending)
  /\ OutcomeIsRight

(* A short rest leaves room for any packet: feed's bound refuses none.     *)
LEMMA RoomForData ==
  ASSUME NEW rest \in Seq(Nat), IsShort(rest), NEW data \in SeqOf(Bytes, MaxPayload)
  PROVE  ~(Len(rest) + Len(data) > BufferBound)
<1> USE LimitsAssumption
<1>1. Len(rest) \in Nat /\ Len(data) \in Nat /\ Len(data) <= MaxPayload
  BY DataType, LenProperties
<1>2. ASSUME Len(rest) >= Header PROVE rest[2] \in Nat
  <2>1. 2 \in 1..Len(rest)
    BY <1>1, <1>2 DEF Header
  <2>2. QED
    BY <2>1, ElementOfSeq
<1>3. Len(rest) <= MaxOutput + Header
  BY <1>1, <1>2 DEF IsShort, IsIncomplete, Header
<1>4. QED
  BY <1>1, <1>3 DEF BufferBound, Header

(* The invariant holds at first.                                           *)
LEMMA InitShell == Init => ShellInv
<1> SUFFICES ASSUME Init PROVE ShellInv
  OBVIOUS
<1>1. <<>> \in Seq(Nat) /\ Len(<<>>) = 0 /\ <<>> \o <<>> = <<>>
  BY EmptySeq, ConcatEmptySeq
<1>2. Decoded(<<>>, stdout, stderr, code, exited, total)
  BY NothingDecoded DEF Init
<1>3. received = <<>> \o pending
  BY <1>1 DEF Init
<1>4. IsDecoded
  BY <1>1, <1>2, <1>3 DEF IsDecoded
<1>5. IsShort(pending)
  BY <1>1 DEF Init, IsShort, IsIncomplete, Header
<1>6. OutcomeIsRight
  BY DEF Init, OutcomeIsRight
<1>7. QED
  BY <1>4, <1>5, <1>6 DEF ShellInv

(* A step that leaves the bytes alone and fails, or goes on, keeps it.     *)
LEMMA SameBytes ==
  ASSUME ShellInv, UNCHANGED <<received, stream>>,
         \/ pc \notin {"feeding", "return", "done"} /\ pc' \notin {"return", "done"}
         \/ pc' \in {"return", "done"} /\ err' \notin {"none", "exit", "incomplete", "frame"}
  PROVE  ShellInv'
<1>1. OutcomeIsRight'
  BY DEF OutcomeIsRight
<1>2. ASSUME pc \notin {"feeding", "return", "done"} PROVE IsDecoded' /\ IsShort(pending)'
  <2>1. pending' = pending /\ received' = received
    BY DEF stream
  <2>2. IsDecoded'
    BY <1>2 DEF ShellInv, IsDecoded, stream
  <2>3. IsShort(pending)
    BY <1>2 DEF ShellInv
  <2>4. IsShort(pending)'
    BY <2>1, <2>3 DEF IsShort, IsIncomplete
  <2>5. QED
    BY <2>2, <2>4
<1>3. QED
  BY <1>1, <1>2 DEF ShellInv

(* A packet is appended to what pending holds.                             *)
LEMMA WriteKeeps ==
  ASSUME ShellTypeOK, ShellInv, NEW data \in SeqOf(Bytes, MaxPayload), ReadWrite(data)
  PROVE  ShellInv'
<1>1. data \in Seq(Nat) /\ pending \in Seq(Nat) /\ received \in Seq(Nat)
  BY DataType DEF ShellTypeOK
<1>2. pc = "reading" /\ IsDecoded /\ IsShort(pending)
  BY DEF ReadWrite, ShellInv
<1>3. ~(Len(pending) + Len(data) > BufferBound)
  BY <1>1, <1>2, RoomForData
<1>4. pc' = "feeding" /\ pending' = pending \o data /\ received' = received \o data
  BY <1>3 DEF ReadWrite, Goes
<1>5. UNCHANGED <<stdout, stderr, code, exited, total>>
  BY DEF ReadWrite
<1>6. PICK p \in Seq(Nat) :
        received = p \o pending /\ Decoded(p, stdout, stderr, code, exited, total)
  BY <1>2 DEF IsDecoded
<1>7. (p \o pending) \o data = p \o (pending \o data)
  BY <1>1, Joined
<1>8. received' = p \o pending'
  BY <1>4, <1>6, <1>7, Zenon
<1>9. Decoded(p, stdout', stderr', code', exited', total')
  BY <1>5, <1>6
<1>10. IsDecoded'
  BY <1>8, <1>9 DEF IsDecoded
<1>11. OutcomeIsRight'
  BY <1>4 DEF OutcomeIsRight
<1>12. QED
  BY <1>4, <1>10, <1>11 DEF ShellInv

(* finish, with all frames taken.                                          *)
LEMMA FinishKeeps ==
  ASSUME ShellTypeOK, ShellInv, Finish
  PROVE  ShellInv'
<1>1. pending \in Seq(Nat) /\ received \in Seq(Nat) /\ exited \in BOOLEAN
  BY DEF ShellTypeOK
<1>2. pc = "closing" /\ IsDecoded /\ IsIncomplete(pending) /\ pc' = "return"
  BY DEF Finish, ShellInv, IsShort
<1>3. UNCHANGED <<received, pending, stdout, stderr, code, exited, total>>
  BY DEF Finish, stream
<1>4. PICK p \in Seq(Nat) :
        received = p \o pending /\ Decoded(p, stdout, stderr, code, exited, total)
  BY <1>2 DEF IsDecoded
<1>5. CASE exited /\ pending = <<>>
  <2>1. p \o <<>> = p
    BY ConcatEmptySeq
  <2>2. received = p /\ exited = TRUE
    BY <1>4, <1>5, <2>1
  <2>3. Decoded(received, stdout, stderr, code, TRUE, total)
    BY <1>4, <2>2
  <2>4. IsTranscript(received) /\ IsPayload(<<code>>, received, Exit)
    BY <1>1, <2>3, EndsWithExit
  <2>5. IsPayload(stdout, received, Stdout) /\ IsPayload(stderr, received, Stderr)
    BY <2>3 DEF Decoded
  <2>6. err' = IF code # 0 THEN "exit" ELSE "none"
    BY <1>5 DEF Finish
  <2>7. OutcomeIsRight'
    BY <1>3, <2>4, <2>5, <2>6 DEF OutcomeIsRight
  <2>8. QED
    BY <1>2, <2>7 DEF ShellInv
<1>6. CASE ~(exited /\ pending = <<>>)
  <2>1. err' = "incomplete"
    BY <1>6 DEF Finish
  <2>2. Len(p) \in Starts(p)
    BY <1>4 DEF Decoded
  <2>3. AddsNoFrame(p, received) /\ (pending # <<>> => Rest(received) # <<>>)
    BY <1>1, <1>2, <1>4, <2>2, NoNextFrame
  <2>4. ~IsTranscript(received)
    <3>1. CASE pending # <<>>
      BY <2>3, <3>1 DEF IsTranscript
    <3>2. CASE ~exited
      <4>1. \A s \in Frames(p) : p[s + 1] # Exit
        BY <1>4, <3>2 DEF Decoded
      <4>2. Frames(received) = Frames(p)
        BY <1>1, <2>3, AddsNoFrameFacts
      <4>3. \A s \in Frames(p) : received[s + 1] = p[s + 1]
        BY <1>1, <2>3, FramesPrefix DEF AddsNoFrame
      <4>4. QED
        BY <4>1, <4>2, <4>3 DEF IsTranscript
    <3>3. QED
      BY <1>1, <1>6, <3>1, <3>2
  <2>5. OutcomeIsRight'
    BY <1>3, <2>1, <2>4 DEF OutcomeIsRight
  <2>6. QED
    BY <1>2, <2>5 DEF ShellInv
<1>7. QED
  BY <1>5, <1>6

(* One turn of feed's loop.                                                *)
LEMMA FeedKeeps ==
  ASSUME ShellTypeOK, ShellInv, Feed
  PROVE  ShellInv'
<1> USE LimitsAssumption
<1> DEFINE n == pending[2]
           kind == pending[1]
           payload == SubSeq(pending, Header + 1, Header + n)
           left == SubSeq(pending, Header + n + 1, Len(pending))
<1>1. /\ pending \in Seq(Nat) /\ received \in Seq(Nat) /\ exited \in BOOLEAN
      /\ stdout \in Seq(Nat) /\ stderr \in Seq(Nat) /\ total \in Nat /\ Len(pending) \in Nat
  BY LenProperties DEF ShellTypeOK
<1>2. pc = "feeding" /\ IsDecoded /\ received' = received
  BY DEF Feed, ShellInv
<1>3. PICK p \in Seq(Nat) :
        received = p \o pending /\ Decoded(p, stdout, stderr, code, exited, total)
  BY <1>2 DEF IsDecoded
<1>4. Len(p) \in Starts(p) /\ Len(p) \in Nat
  BY <1>3, LenProperties DEF Decoded
(* The two ways out of the loop.                                           *)
<1>5. ASSUME pc' = "acking", UNCHANGED stream, IsShort(pending) PROVE ShellInv'
  <2>1. IsDecoded'
    BY <1>2, <1>5 DEF IsDecoded, stream
  <2>2. IsShort(pending)'
    BY <1>5 DEF IsShort, IsIncomplete, stream
  <2>3. OutcomeIsRight'
    BY <1>5 DEF OutcomeIsRight
  <2>4. QED
    BY <1>5, <2>1, <2>2, <2>3 DEF ShellInv
<1>6. ASSUME Fails("frame"), ~IsExtendable(received) PROVE ShellInv'
  <2>1. pc' = "return" /\ err' = "frame"
    BY <1>6 DEF Fails
  <2>2. OutcomeIsRight'
    BY <1>2, <1>6, <2>1 DEF OutcomeIsRight
  <2>3. QED
    BY <2>1, <2>2 DEF ShellInv
<1>7. CASE Len(pending) < Header
  <2>1. IsShort(pending)
    BY <1>1, <1>7 DEF IsShort, IsIncomplete, Header
  <2>2. pc' = "acking" /\ UNCHANGED stream
    BY <1>7 DEF Feed, Goes
  <2>3. QED
    BY <1>5, <2>1, <2>2
<1>8. CASE ~(Len(pending) < Header)
  <2>1. Len(pending) >= Header
    BY <1>1, <1>8 DEF Header
  <2>2. n \in Nat
    BY <1>1, <2>1, ElementOfSeq DEF Header
  <2>3. CASE exited
    <3>1. Fails("frame")
      BY <1>8, <2>3 DEF Feed, Refuses
    <3>2. Begins(p, received) /\ Len(p) < Len(received)
      BY <1>1, <1>3, <1>4, <2>1, Joined DEF Begins, Header
    <3>3. Decoded(p, stdout, stderr, code, TRUE, total)
      BY <1>1, <1>3, <2>3
    <3>4. ~IsExtendable(received)
      BY <1>1, <3>2, <3>3, BytesAfterExit
    <3>5. QED
      BY <1>6, <3>1, <3>4
  <2>4. CASE ~exited /\ Len(pending) - Header < n
    <3>1. IsIncomplete(pending)
      BY <2>4 DEF IsIncomplete
    <3>2. CASE n > MaxOutput
      <4>1. Fails("frame")
        BY <1>8, <3>2 DEF Feed, Refuses
      <4>2. /\ AddsNoFrame(p, received) /\ Len(received) = Len(p) + Len(pending)
            /\ received[Len(p) + 2] = n
        BY <1>1, <1>3, <1>4, <2>1, <3>1, NoNextFrame
      <4>3. Len(p) + Header <= Len(received)
        BY <1>1, <1>4, <2>1, <4>2 DEF Header
      <4>4. ~IsExtendable(received)
        BY <1>1, <3>2, <4>2, <4>3, LongFrame
      <4>5. QED
        BY <1>6, <4>1, <4>4
    <3>3. CASE ~(n > MaxOutput)
      <4>1. pc' = "acking" /\ UNCHANGED stream
        BY <1>8, <2>4, <3>3 DEF Feed, Refuses, Goes
      <4>2. IsShort(pending)
        BY <2>2, <3>1, <3>3 DEF IsShort
      <4>3. QED
        BY <1>5, <4>1, <4>2
    <3>4. QED
      BY <3>2, <3>3
  <2>5. CASE ~exited /\ ~(Len(pending) - Header < n)
    <3>1. n <= Len(pending) - Header
      BY <1>1, <2>2, <2>5 DEF Header
    <3>2. /\ left \in Seq(Nat) /\ payload \in Seq(Nat) /\ Len(payload) = n
          /\ \E z \in Seq(Nat) :
               /\ p \o pending = z \o left
               /\ AddsFrame(p, z) /\ Begins(z, p \o pending)
               /\ z[Len(p) + 1] = kind /\ z[Len(p) + 2] = n
               /\ Len(p) + Header + Len(payload) = Len(z)
               /\ \A i \in 1..Len(payload) : payload[i] = z[Len(p) + Header + i]
      BY <1>1, <1>4, <2>1, <3>1, NextFrame, Zenon
    <3> HIDE DEF n, kind, payload, left
    <3>3. PICK q \in Seq(Nat) :
               /\ p \o pending = q \o left
               /\ AddsFrame(p, q) /\ Begins(q, p \o pending)
               /\ q[Len(p) + 1] = kind /\ q[Len(p) + 2] = n
               /\ Len(p) + Header + Len(payload) = Len(q)
               /\ \A i \in 1..Len(payload) : payload[i] = q[Len(p) + Header + i]
      BY <3>2, Zenon
    <3>4. received = q \o left /\ Begins(q, received)
      BY <1>3, <3>3
    <3>5. /\ Len(p) \in Frames(q) /\ Len(p) \in Frames(received)
          /\ received[Len(p) + 1] = kind /\ received[Len(p) + 2] = n
      <4>1. Len(p) \in Frames(q)
        BY <3>3, AddsFrameStarts
      <4>2. /\ Len(p) \in Frames(received)
            /\ received[Len(p) + 1] = q[Len(p) + 1] /\ received[Len(p) + 2] = q[Len(p) + 2]
        BY <1>1, <3>4, <4>1, FramesPrefix
      <4>3. QED
        BY <3>3, <4>1, <4>2
    <3>6. Decoded(p, stdout, stderr, code, FALSE, total)
      BY <1>1, <1>3, <2>5
    <3>10. ASSUME kind \in {Stdout, Stderr}
           PROVE  /\ Output(q) = total + n
                  /\ total + n <= MaxOutput =>
                       Decoded(q, IF kind = Stdout THEN stdout \o payload ELSE stdout,
                                  IF kind = Stderr THEN stderr \o payload ELSE stderr,
                               code, FALSE, total + n)
      <4>1. q[Len(p) + 1] \in {Stdout, Stderr}
        BY <3>3, <3>10
      <4>2. /\ Output(q) = total + Len(payload)
            /\ total + Len(payload) <= MaxOutput =>
                 Decoded(q, IF q[Len(p) + 1] = Stdout THEN stdout \o payload ELSE stdout,
                            IF q[Len(p) + 1] = Stderr THEN stderr \o payload ELSE stderr,
                         code, FALSE, total + Len(payload))
        BY <1>1, <3>2, <3>3, <3>6, <4>1, OutputFrame
      <4>3. QED
        BY <3>2, <3>3, <4>2
    <3>7. CASE n > MaxOutput
      <4>1. Fails("frame")
        BY <1>8, <3>7 DEF Feed, Refuses, n
      <4>2. CASE kind \in {Stdout, Stderr}
        <5>2. Output(q) > MaxOutput
          <6>1. Output(q) = total + n
            BY <3>10, <4>2
          <6>2. QED
            BY <1>1, <2>2, <3>7, <6>1
        <5>3. ~IsExtendable(received)
          BY <1>1, <3>4, <5>2, TooMuchOutput
        <5>4. QED
          BY <1>6, <4>1, <5>3
      <4>3. CASE kind \notin {Stdout, Stderr}
        <5>1. n # 1
          BY <2>2, <3>7
        <5>2. ~IsExtendable(received)
          BY <3>5, <4>3, <5>1, BadFrame
        <5>3. QED
          BY <1>6, <4>1, <5>2
      <4>4. QED
        BY <4>2, <4>3
    <3>8. CASE ~(n > MaxOutput)
      <4>1. TakeFrame(kind, payload)
        BY <1>8, <2>5, <3>8 DEF Feed, Refuses, n, kind, payload
      <4>2. CASE kind \in {Stdout, Stderr}
        <5>2. kind # Exit
          BY <4>2 DEF Stdout, Stderr, Exit
        <5>3. CASE total + n > MaxOutput
          <6>1. Fails("frame")
            BY <3>2, <3>3, <4>1, <4>2, <5>2, <5>3 DEF TakeFrame
          <6>2. ~IsExtendable(received)
            BY <1>1, <3>4, <3>10, <4>2, <5>3, TooMuchOutput
          <6>3. QED
            BY <1>6, <6>1, <6>2
        <5>4. CASE ~(total + n > MaxOutput)
          <6>1. /\ pc' = "feeding" /\ code' = code /\ exited' = FALSE /\ total' = total + n
                /\ stdout' = IF kind = Stdout THEN stdout \o payload ELSE stdout
                /\ stderr' = IF kind = Stderr THEN stderr \o payload ELSE stderr
                /\ pending' = left
            BY <1>1, <2>5, <3>2, <3>3, <4>1, <4>2, <5>2, <5>4 DEF TakeFrame, Goes, left
          <6>2. total + n <= MaxOutput
            BY <1>1, <2>2, <5>4
          <6>3. Decoded(q, stdout', stderr', code', exited', total')
            BY <3>10, <4>2, <6>1, <6>2
          <6>4. IsDecoded'
            BY <1>2, <3>4, <6>1, <6>3 DEF IsDecoded
          <6>5. QED
            BY <6>1, <6>4 DEF ShellInv, OutcomeIsRight
        <5>5. QED
          BY <5>3, <5>4
      <4>3. CASE kind = Exit /\ n = 1
        <5>1. kind \notin {Stdout, Stderr}
          BY <4>3 DEF Stdout, Stderr, Exit
        <5>2. Len(q) = Len(p) + Header + 1 /\ Decoded(q, stdout, stderr, q[Len(q)], TRUE, total)
          BY <3>3, <3>6, <4>3, ExitFrame
        <5>3. payload[1] = q[Len(q)]
          BY <3>2, <3>3, <4>3, <5>2
        <5>4. SubSeq(pending, Header + 2, Len(pending)) = left
          BY <4>3 DEF left, Header
        <5>5. /\ pc' = "feeding" /\ code' = payload[1] /\ exited' = TRUE
              /\ pending' = left /\ UNCHANGED <<stdout, stderr, total>>
          BY <3>2, <3>3, <4>1, <4>3, <5>1, <5>4 DEF TakeFrame, Goes
        <5>6. Decoded(q, stdout', stderr', code', exited', total')
          BY <5>2, <5>3, <5>5
        <5>7. IsDecoded'
          BY <1>2, <3>4, <5>5, <5>6 DEF IsDecoded
        <5>8. QED
          BY <5>5, <5>7 DEF ShellInv, OutcomeIsRight
      <4>4. CASE kind \notin {Stdout, Stderr} /\ ~(kind = Exit /\ n = 1)
        <5>1. Fails("frame")
          BY <3>2, <3>3, <4>1, <4>4 DEF TakeFrame
        <5>2. ~IsExtendable(received)
          BY <3>5, <4>4, BadFrame
        <5>3. QED
          BY <1>6, <5>1, <5>2
      <4>5. QED
        BY <4>2, <4>3, <4>4
    <3>9. QED
      BY <3>7, <3>8
  <2>6. QED
    BY <2>3, <2>4, <2>5
<1>9. QED
  BY <1>7, <1>8

(* Every step keeps the invariant.                                         *)
LEMMA NextShell == ShellTypeOK /\ ShellInv /\ [Next]_vars => ShellInv'
<1> SUFFICES ASSUME ShellTypeOK, ShellInv, [Next]_vars PROVE ShellInv'
  OBVIOUS
<1>1. CASE Dial
  BY <1>1, SameBytes DEF Dial, Goes
<1>2. CASE Connect
  <2>1. pc \in {"stls", "tls", "cnxn", "open"} /\ Following[pc] \notin {"return", "done"}
    BY <1>2 DEF Connect, Following
  <2>2. IOError(pc) \in {"auth", "network"} /\ BadPacket(pc) \in {"auth", "protocol"}
    BY DEF IOError, BadPacket
  <2>3. QED
    BY <1>2, <2>1, <2>2, SameBytes DEF Connect, Goes, Fails
<1>3. CASE IOFails
  BY <1>3, SameBytes DEF IOFails, Fails, IOError
<1>4. CASE TooManyPackets
  BY <1>4, SameBytes DEF TooManyPackets, Fails
<1>5. CASE ReadBad
  BY <1>5, SameBytes DEF ReadBad, Fails
<1>6. CASE ReadClose
  BY <1>6, SameBytes DEF ReadClose, Goes
<1>7. ASSUME NEW data \in SeqOf(Bytes, MaxPayload), ReadWrite(data) PROVE ShellInv'
  BY <1>7, WriteKeeps
<1>8. CASE Feed
  BY <1>8, FeedKeeps
<1>9. CASE Acknowledge
  BY <1>9, SameBytes DEF Acknowledge, Goes
<1>10. CASE Finish
  BY <1>10, FinishKeeps
<1>11. CASE Expire \/ UNCHANGED vars
  <2>1. UNCHANGED <<pc, received, pending, stdout, stderr, code, exited, total, err>>
    BY <1>11 DEF Expire, vars, stream
  <2>2. OutcomeIsRight'
    BY <2>1 DEF ShellInv, OutcomeIsRight
  <2>3. pc \notin {"return", "done"} => IsDecoded'
    BY <2>1 DEF ShellInv, IsDecoded
  <2>4. pc \notin {"feeding", "return", "done"} => IsShort(pending)'
    BY <2>1 DEF ShellInv, IsShort, IsIncomplete
  <2>5. QED
    BY <2>1, <2>2, <2>3, <2>4 DEF ShellInv
<1>12. CASE Return
  <2>1. /\ pc = "return" /\ pc' = "done" /\ err' \in {err, "deadline"}
        /\ UNCHANGED <<received, stdout, stderr, code>>
    BY <1>12 DEF Return, stream
  <2>2. OutcomeIsRight'
    BY <2>1 DEF ShellInv, OutcomeIsRight
  <2>3. QED
    BY <2>1, <2>2 DEF ShellInv
<1>13. QED
  BY <1>1, <1>2, <1>3, <1>4, <1>5, <1>6, <1>7, <1>8, <1>9, <1>10, <1>11, <1>12
     DEF Next

(* A result is what the bytes say, in whatever packets they came, and a    *)
(* stream is refused only when no more of it could have made it valid      *)
(* (feed and finish, shell.go:350-400).                                    *)
THEOREM OutcomeIsRightHolds == Spec => []OutcomeIsRight
<1>1. Init => ShellInv
  BY InitShell
<1>2. ShellTypeOK /\ ShellInv /\ [Next]_vars => ShellInv'
  BY NextShell
<1>3. ShellInv => OutcomeIsRight
  BY DEF ShellInv
<1>4. QED
  BY <1>1, <1>2, <1>3, ShellTyped, PTL DEF Spec

(* The bound on shellStream.pending never refuses a packet: what a call    *)
(* keeps between packets always leaves room for the largest of them, so    *)
(* the first check of feed is a safeguard only (shell.go:351).             *)
THEOREM BufferNeverFull ==
  Spec => [](pc = "reading" =>
               \A data \in SeqOf(Bytes, MaxPayload) : Len(pending) + Len(data) <= BufferBound)
<1> DEFINE P == pc = "reading" =>
                  \A data \in SeqOf(Bytes, MaxPayload) : Len(pending) + Len(data) <= BufferBound
<1> USE LimitsAssumption
<1>1. ASSUME ShellTypeOK, ShellInv, pc = "reading", NEW data \in SeqOf(Bytes, MaxPayload)
      PROVE  Len(pending) + Len(data) <= BufferBound
  <2>1. pending \in Seq(Nat) /\ IsShort(pending)
    BY <1>1 DEF ShellTypeOK, ShellInv
  <2>2. Len(pending) \in Nat /\ Len(data) \in Nat /\ BufferBound \in Nat
    BY <2>1, DataType, LenProperties DEF BufferBound, Header
  <2>3. ~(Len(pending) + Len(data) > BufferBound)
    BY <2>1, RoomForData
  <2>4. QED
    BY <2>2, <2>3
<1>2. ShellTypeOK /\ ShellInv => P
  BY <1>1
<1>3. Init => ShellInv
  BY InitShell
<1>4. ShellTypeOK /\ ShellInv /\ [Next]_vars => ShellInv'
  BY NextShell
<1> HIDE DEF P
<1>5. Spec => []P
  BY <1>2, <1>3, <1>4, ShellTyped, PTL DEF Spec
<1>6. QED
  BY <1>5 DEF P
=============================================================================
