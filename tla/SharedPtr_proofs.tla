-------------------------- MODULE SharedPtr_proofs --------------------------
(* Theorems about SharedPtr, for any handles of both classes, objects and blocks. *)
EXTENDS SharedPtr, FiniteSetTheorems, TLAPS

-----------------------------------------------------------------------------
(* The inductive invariant *)

\* The pointers that handles have: in the handle itself, unless a reset has already let
\* go of them, or in the temporary that is to let go.
Main(h, b, o) == cb[h] = b /\ raw[h] = o /\ pc[h] # "reset shared"
Temp(h, b, o) ==
    pc[h] \in {"release", "last"} /\ tmp[h].cb = b /\ tmp[h].raw = o /\ o # Null
Uses(h, b, o) == Main(h, b, o) \/ Temp(h, b, o)
Used(b, o) == \E h \in Handles : Uses(h, b, o)

\* The new object of a reset under way.
Pending(h, o) == pc[h] \in {"reset sole", "reset shared"} /\ tmp[h].raw = o

\* The handle that has found the count of b at zero.
Claim(h, b) == \/ pc[h] = "last" /\ tmp[h].cb = b
               \/ pc[h] = "reset sole" /\ cb[h] = b

\* What each place of a call says of the handle.
ShapeOf(h) ==
    /\ pc[h] \in {"dead", "copy"} => raw[h] = Null /\ cb[h] = Null
    /\ pc[h] \in {"release", "last"} /\ then[h] = "dead" => raw[h] = Null /\ cb[h] = Null
    /\ raw[h] # Null => cb[h] # Null
    /\ cb[h] # Null => block[cb[h]].state # "free"
    /\ pc[h] = "last" => tmp[h].raw # Null
    /\ pc[h] \in {"reset sole", "reset shared"} => cb[h] # Null

Shape == \A h \in Handles : ShapeOf(h)

\* A source is not touched while it is read, so that what a copy has read is still there.
Sources ==
    \A h \in Handles :
        IF pc[h] \in {"copy", "assign"}
        THEN /\ src[h] # Null /\ tmp[h] = Ptr(src[h])
             /\ pc[src[h]] = "ready" \/ src[h] = h
        ELSE src[h] = Null

Fits(b, o) == IF block[b].m_object = Null THEN object[o].deleter = block[b].deleter
              ELSE block[b].m_object = o /\ object[o].deleter = "inside block"

\* Pointers lead to what is alive, and with the deleter it needs; a block stands for one
\* object, and an object has one block; empty handles have blocks of their own.
Agree ==
    /\ \A o \in Objects : ~Used(Null, o)
    /\ \A b \in Blocks, o \in Objects :
          Used(b, o) => /\ block[b].state = "live" /\ block[b].managed
                        /\ object[o].state = "alive" /\ Fits(b, o)
    /\ \A b \in Blocks :
          Used(b, Null) => /\ block[b].state = "live" /\ ~block[b].managed
                           /\ block[b].m_object = Null
    /\ \A b, c \in Blocks, o, p \in Objects : Used(b, o) /\ Used(c, p) => (b = c <=> o = p)

\* The block that the reset of h keeps fits its new object, if there is one.
Keepable(h) ==
    /\ block[cb[h]].m_object = Null /\ ~Dead(block[cb[h]].deleter)
    /\ tmp[h].raw # Null => block[cb[h]].deleter = Default(h)

\* The new object of a reset is nobody else's; a block that is kept fits it.
Resets ==
    /\ \A h \in Handles, o \in Objects :
          Pending(h, o) => /\ object[o].state = "alive" /\ object[o].deleter = Default(h)
                           /\ \A b \in Blocks : ~Used(b, o)
                           /\ \A g \in Handles \ {h} : ~Pending(g, o)
    /\ \A h \in Handles : pc[h] = "reset sole" => Keepable(h)

\* Who has found the count at zero is alone with the block.
Claims ==
    \A h \in Handles, b \in Blocks :
        Claim(h, b) => /\ \A g \in Handles \ {h}, o \in Objects \cup {Null} : ~Uses(g, b, o)
                       /\ pc[h] = "last" => cb[h] # b

\* The count of a block that has stood for an object is the number of shared_ptrs.
Exact ==
    \A b \in Blocks :
        block[b].state = "live" /\ block[b].managed =>
            block[b].count = Cardinality(Owners(b)) + Cardinality(Dropping(b))

\* Nothing is left behind.
Kept ==
    /\ \A b \in Blocks :
          block[b].state = "live" /\ block[b].managed => \E o \in Objects : Used(b, o)
    /\ \A o \in Objects :
          object[o].state = "alive" => \/ \E b \in Blocks : Used(b, o)
                                       \/ \E h \in Handles : Pending(h, o)

Sound ==
    /\ TypeOK /\ fault = "none"
    /\ Shape /\ Sources /\ Agree /\ Resets /\ Claims /\ Exact /\ Kept

IInv == ~abused => Sound

-----------------------------------------------------------------------------
(* Counting *)

LEMMA Counted ==
    ASSUME NEW b
    PROVE  /\ IsFiniteSet(Owners(b)) /\ Cardinality(Owners(b)) \in Nat
           /\ IsFiniteSet(Dropping(b)) /\ Cardinality(Dropping(b)) \in Nat
           /\ Cardinality(Owners(b)) <= Cardinality(Handles)
           /\ Cardinality(Dropping(b)) <= Cardinality(Handles)
           /\ Cardinality(Handles) \in Nat
<1>1. Owners(b) \in SUBSET Handles /\ Dropping(b) \in SUBSET Handles
    BY DEF Owners, Dropping
<1>2. IsFiniteSet(Handles)
    BY CountAssumption
<1> QED BY <1>1, <1>2, FS_Subset, FS_CardinalityType

\* A handle counts once in a set.
In(S, h) == IF h \in S THEN 1 ELSE 0

LEMMA Without ==
    ASSUME NEW S, IsFiniteSet(S), NEW h
    PROVE  /\ IsFiniteSet(S \ {h}) /\ Cardinality(S \ {h}) \in Nat
           /\ Cardinality(S) = Cardinality(S \ {h}) + In(S, h)
<1>1. IsFiniteSet(S \ {h}) /\ Cardinality(S) \in Nat /\ Cardinality(S \ {h}) \in Nat
    BY FS_RemoveElement, FS_CardinalityType
<1>2. CASE h \in S
    <2>1. Cardinality(S \ {h}) = Cardinality(S) - 1
        BY <1>2, FS_RemoveElement
    <2> QED BY <1>1, <1>2, <2>1 DEF In
<1>3. CASE h \notin S
    <2>1. Cardinality(S \ {h}) = Cardinality(S)
        <3>1. S \ {h} = S
            BY <1>3
        <3> QED BY <3>1
    <2>2. In(S, h) = 0
        BY <1>3 DEF In
    <2> QED BY <1>1, <2>1, <2>2
<1> QED BY <1>2, <1>3

LEMMA OneChanged ==
    ASSUME NEW S, NEW T, IsFiniteSet(S), IsFiniteSet(T), NEW h, S \ {h} = T \ {h}
    PROVE  Cardinality(S) - In(S, h) = Cardinality(T) - In(T, h)
<1>1. /\ Cardinality(S \ {h}) \in Nat
      /\ Cardinality(S) = Cardinality(S \ {h}) + In(S, h)
      /\ Cardinality(T) = Cardinality(S \ {h}) + In(T, h)
    BY Without
<1>2. In(S, h) \in Nat /\ In(T, h) \in Nat
    BY DEF In
<1> QED BY <1>1, <1>2

LEMMA TwoChanged ==
    ASSUME NEW S, NEW T, IsFiniteSet(S), IsFiniteSet(T), NEW h, NEW g, h # g,
           S \ {h, g} = T \ {h, g}
    PROVE  Cardinality(S) - In(S, h) - In(S, g) = Cardinality(T) - In(T, h) - In(T, g)
<1> DEFINE S0 == S \ {h}
           T0 == T \ {h}
<1>1. /\ IsFiniteSet(S0) /\ IsFiniteSet(T0) /\ Cardinality(S0) \in Nat /\ Cardinality(T0) \in Nat
      /\ Cardinality(S) = Cardinality(S0) + In(S, h)
      /\ Cardinality(T) = Cardinality(T0) + In(T, h)
    BY Without
<1>2. S0 \ {g} = T0 \ {g}
    OBVIOUS
<1>3. In(S0, g) = In(S, g) /\ In(T0, g) = In(T, g)
    BY DEF In
<1> HIDE DEF S0, T0
<1>4. Cardinality(S0) - In(S0, g) = Cardinality(T0) - In(T0, g)
    BY <1>1, <1>2, OneChanged
<1>5. In(S, h) \in Nat /\ In(T, h) \in Nat /\ In(S, g) \in Nat /\ In(T, g) \in Nat
    BY DEF In
<1> QED BY <1>1, <1>3, <1>4, <1>5

LEMMA Arithmetic ==
    ASSUME NEW n \in 0..(CountMod - 1)
    PROVE  /\ CountMod \in Nat
           /\ Incremented(n) \in 0..(CountMod - 1) /\ Decremented(n) \in 0..(CountMod - 1)
           /\ n + 1 < CountMod => Incremented(n) = n + 1
           /\ n > 0 => Decremented(n) = n - 1
           /\ n = 0 => Decremented(n) = CountMod - 1
<1>1. CountMod \in Nat
    BY CountAssumption
<1>2. CountMod \in Nat \ {0}
    BY <1>1
<1> QED BY <1>2 DEF Incremented, Decremented

-----------------------------------------------------------------------------
(* What a step that moves pointers about leaves as it is *)

\* Nothing happens to the handles outside C.
Still(C) ==
    \A k \in Handles \ C : /\ pc'[k] = pc[k] /\ raw'[k] = raw[k] /\ cb'[k] = cb[k]
                           /\ tmp'[k] = tmp[k] /\ src'[k] = src[k] /\ then'[k] = then[k]

\* A block but for its count.
Alike(b) ==
    /\ block'[b].state = block[b].state /\ block'[b].deleter = block[b].deleter
    /\ block'[b].m_object = block[b].m_object /\ block'[b].managed = block[b].managed

\* The pointers in use have all been in use, and come from no handle that was alone.
FewerUses ==
    \A k \in Handles, b \in Blocks \cup {Null}, o \in Objects \cup {Null} :
        (b # Null \/ o # Null) /\ Uses(k, b, o)' =>
            \E i \in Handles : Uses(i, b, o) /\ (i = k \/ pc[i] \notin {"last", "reset sole"})

LEMMA FewerUsed ==
    ASSUME FewerUses
    PROVE  /\ \A o \in Objects : Used(Null, o)' => Used(Null, o)
           /\ \A b \in Blocks, o \in Objects \cup {Null} : Used(b, o)' => Used(b, o)
<1>1. ASSUME NEW b \in Blocks \cup {Null}, NEW o \in Objects \cup {Null}, b # Null \/ o # Null,
             Used(b, o)'
      PROVE  Used(b, o)
    <2>1. PICK k \in Handles : Uses(k, b, o)'
        BY <1>1 DEF Used
    <2> QED BY <1>1, <2>1 DEF FewerUses, Used
<1> QED BY <1>1, NullAssumption

LEMMA ShapeStays ==
    ASSUME TypeOK, Shape, NEW C \in SUBSET Handles, Still(C),
           \A b \in Blocks : /\ block[b].state # "free" => block'[b].state # "free"
                             /\ block[b].managed => block'[b].managed,
           \A k \in C : ShapeOf(k)'
    PROVE  Shape'
<1>1. ASSUME NEW k \in Handles \ C
      PROVE  ShapeOf(k)'
    <2>1. /\ pc'[k] = pc[k] /\ raw'[k] = raw[k] /\ cb'[k] = cb[k]
          /\ tmp'[k] = tmp[k] /\ then'[k] = then[k]
        BY DEF Still
    <2>2. cb[k] # Null => cb[k] \in Blocks
        BY DEF TypeOK
    <2>3. ShapeOf(k)
        BY DEF Shape
    <2>4. raw[k] # Null => cb[k] # Null
        BY <2>3 DEF ShapeOf
    <2> QED BY <2>1, <2>2, <2>3, <2>4 DEF ShapeOf
<1> QED BY <1>1 DEF Shape

LEMMA SourcesStay ==
    ASSUME TypeOK, Sources, NEW C \in SUBSET Handles, Still(C),
           \A k \in C : pc'[k] \notin {"copy", "assign"} /\ src'[k] = Null,
           \A k \in Handles \ C : src[k] \notin C
    PROVE  Sources'
<1>1. ASSUME NEW k \in Handles \ C
      PROVE  IF pc'[k] \in {"copy", "assign"}
             THEN /\ src'[k] # Null /\ tmp'[k] = Ptr(src[k])'
                  /\ pc'[src'[k]] = "ready" \/ src'[k] = k
             ELSE src'[k] = Null
    <2>1. pc'[k] = pc[k] /\ tmp'[k] = tmp[k] /\ src'[k] = src[k]
        BY DEF Still
    <2>2. src[k] # Null => src[k] \in Handles \ C
        BY DEF TypeOK
    <2>3. src[k] # Null => Ptr(src[k])' = Ptr(src[k]) /\ pc'[src[k]] = pc[src[k]]
        BY <2>2 DEF Still, Ptr
    <2>4. IF pc[k] \in {"copy", "assign"}
          THEN /\ src[k] # Null /\ tmp[k] = Ptr(src[k])
               /\ pc[src[k]] = "ready" \/ src[k] = k
          ELSE src[k] = Null
        BY DEF Sources
    <2> QED BY <2>1, <2>3, <2>4
<1>2. ASSUME NEW k \in C
      PROVE  IF pc'[k] \in {"copy", "assign"}
             THEN /\ src'[k] # Null /\ tmp'[k] = Ptr(src[k])'
                  /\ pc'[src'[k]] = "ready" \/ src'[k] = k
             ELSE src'[k] = Null
    OBVIOUS
<1>3. ASSUME NEW k \in Handles
      PROVE  IF pc'[k] \in {"copy", "assign"}
             THEN /\ src'[k] # Null /\ tmp'[k] = Ptr(src[k])'
                  /\ pc'[src'[k]] = "ready" \/ src'[k] = k
             ELSE src'[k] = Null
    BY <1>1, <1>2
<1> QED BY <1>3 DEF Sources

LEMMA AgreeStays ==
    ASSUME Agree, FewerUses,
           \A b \in Blocks, o \in Objects \cup {Null} : Used(b, o)' => Alike(b),
           \A b \in Blocks, o \in Objects : Used(b, o)' => object'[o] = object[o]
    PROVE  Agree'
<1>1. /\ \A o \in Objects : Used(Null, o)' => Used(Null, o)
      /\ \A b \in Blocks, o \in Objects \cup {Null} : Used(b, o)' => Used(b, o)
    BY FewerUsed
<1>2. ASSUME NEW b \in Blocks, NEW o \in Objects, Used(b, o)'
      PROVE  /\ block'[b].state = "live" /\ block'[b].managed
             /\ object'[o].state = "alive" /\ Fits(b, o)'
    <2>1. Used(b, o)
        BY <1>1, <1>2
    <2>2. /\ block[b].state = "live" /\ block[b].managed
          /\ object[o].state = "alive" /\ Fits(b, o)
        BY <2>1 DEF Agree
    <2>3. Alike(b) /\ object'[o] = object[o]
        BY <1>2
    <2> QED BY <2>2, <2>3 DEF Alike, Fits
<1>3. ASSUME NEW b \in Blocks, Used(b, Null)'
      PROVE  block'[b].state = "live" /\ ~block'[b].managed /\ block'[b].m_object = Null
    <2>1. Used(b, Null) /\ Alike(b)
        BY <1>1, <1>3
    <2> QED BY <2>1 DEF Agree, Alike
<1>4. \A b, c \in Blocks, o, p \in Objects : Used(b, o)' /\ Used(c, p)' => (b = c <=> o = p)
    BY <1>1 DEF Agree
<1>5. \A o \in Objects : ~Used(Null, o)'
    BY <1>1 DEF Agree
<1> QED BY <1>2, <1>3, <1>4, <1>5 DEF Agree

LEMMA ResetsStay ==
    ASSUME Resets, FewerUses,
           \A h \in Handles, o \in Objects : Pending(h, o)' => Pending(h, o),
           \A h \in Handles, o \in Objects : Pending(h, o)' => object'[o] = object[o],
           \A h \in Handles : pc'[h] = "reset sole" =>
               /\ pc[h] = "reset sole" /\ cb'[h] = cb[h] /\ cb[h] \in Blocks
               /\ tmp'[h] = tmp[h] /\ Alike(cb[h])
    PROVE  Resets'
<1>1. \A b \in Blocks, o \in Objects : Used(b, o)' => Used(b, o)
    BY FewerUsed
<1>2. \A h \in Handles, o \in Objects : Pending(h, o)' => Pending(h, o)
    OBVIOUS
<1>3. \A h \in Handles : Default(h)' = Default(h)
    BY DEF Default
<1>4. ASSUME NEW h \in Handles, pc'[h] = "reset sole"
      PROVE  Keepable(h)'
    <2>1. /\ pc[h] = "reset sole" /\ cb'[h] = cb[h] /\ cb[h] \in Blocks
          /\ tmp'[h] = tmp[h] /\ Alike(cb[h])
        BY <1>4
    <2>2. Keepable(h)
        BY <2>1 DEF Resets
    <2> QED BY <1>3, <2>1, <2>2 DEF Alike, Keepable, Dead
<1>5. ASSUME NEW h \in Handles, NEW o \in Objects, Pending(h, o)'
      PROVE  /\ object'[o].state = "alive" /\ object'[o].deleter = Default(h)
             /\ \A b \in Blocks : ~Used(b, o)'
             /\ \A g \in Handles \ {h} : ~Pending(g, o)'
    <2>1. Pending(h, o) /\ object'[o] = object[o]
        BY <1>2, <1>5
    <2> QED BY <1>1, <1>2, <2>1 DEF Resets
<1> QED BY <1>3, <1>4, <1>5 DEF Resets

LEMMA ClaimsStay ==
    ASSUME Claims, FewerUses,
           \A h \in Handles, b \in Blocks :
               Claim(h, b)' => /\ Claim(h, b) /\ pc[h] \in {"last", "reset sole"}
                               /\ pc'[h] = "last" => pc[h] = "last" /\ cb'[h] = cb[h]
    PROVE  Claims'
<1>1. ASSUME NEW h \in Handles, NEW b \in Blocks, Claim(h, b)'
      PROVE  /\ \A g \in Handles \ {h}, o \in Objects \cup {Null} : ~Uses(g, b, o)'
             /\ pc'[h] = "last" => cb'[h] # b
    <2>1. /\ Claim(h, b) /\ pc[h] \in {"last", "reset sole"}
          /\ pc'[h] = "last" => pc[h] = "last" /\ cb'[h] = cb[h]
        BY <1>1
    <2>2. ASSUME NEW g \in Handles \ {h}, NEW o \in Objects \cup {Null}, Uses(g, b, o)'
          PROVE  FALSE
        <3>1. PICK i \in Handles : /\ Uses(i, b, o)
                                   /\ i = g \/ pc[i] \notin {"last", "reset sole"}
            BY <2>2, NullAssumption DEF FewerUses
        <3>2. i # h
            BY <2>1, <3>1
        <3> QED BY <2>1, <3>1, <3>2 DEF Claims
    <2> QED BY <2>1, <2>2 DEF Claims
<1> QED BY <1>1 DEF Claims

LEMMA KeptStays ==
    ASSUME Kept,
           \A b \in Blocks : block'[b].state = "live" /\ block'[b].managed =>
                                 block[b].state = "live" /\ block[b].managed,
           \A o \in Objects : object'[o].state = "alive" => object[o].state = "alive",
           \A b \in Blocks, o \in Objects : Used(b, o) => Used(b, o)',
           \A h \in Handles, o \in Objects : Pending(h, o) => Pending(h, o)'
    PROVE  Kept'
BY DEF Kept

-----------------------------------------------------------------------------
LEMMA InitTyped == Init => TypeOK
<1> SUFFICES ASSUME Init PROVE TypeOK
    OBVIOUS
<1>1. 0 \in 0..(CountMod - 1)
    BY CountAssumption, FS_CardinalityType
<1> QED BY <1>1 DEF Init, TypeOK, NoPtr, Pointers, Deleters, ControlBlocks, ManagedObjects

LEMMA InitEstablishes == Init => IInv
<1> SUFFICES ASSUME Init PROVE Sound
    BY DEF IInv
<1>1. TypeOK
    BY InitTyped
<1>2. \A b \in Blocks, o \in Objects \cup {Null} : ~Used(b, o)
    BY NullAssumption DEF Init, Used, Uses, Main, Temp
<1>3. \A o \in Objects : ~Used(Null, o)
    BY NullAssumption DEF Init, Used, Uses, Main, Temp
<1>4. Shape /\ Sources
    BY DEF Init, Shape, ShapeOf, Sources
<1>5. Agree
    BY <1>2, <1>3 DEF Agree
<1>6. Resets /\ Claims
    BY DEF Init, Resets, Claims, Pending, Claim
<1>7. Exact /\ Kept
    BY DEF Init, Exact, Kept
<1> QED BY <1>1, <1>4, <1>5, <1>6, <1>7 DEF Init, Sound

-----------------------------------------------------------------------------
(* Taking a block *)

\* A handle without a pointer of its own, but perhaps the only one to block b, is given
\* object o, or none, with b: a constructor or the end of a reset.  What it had by b before
\* is destroyed.
Takes(h, b, o) ==
    /\ pc[h] \in {"dead", "reset sole", "reset shared"}
    /\ \A k \in Handles : src[k] # h
    /\ \A k \in Handles \ {h} : cb[k] = b => pc[k] = "reset shared"
    /\ \A k \in Handles \ {h}, p \in Objects \cup {Null} : ~Uses(k, b, p)
    /\ \A c \in Blocks \cup {Null}, p \in Objects \cup {Null} :
          (c # Null \/ p # Null) /\ Uses(h, c, p) => c = b
    /\ o # Null => /\ \A c \in Blocks : ~Used(c, o)
                   /\ \A k \in Handles \ {h} : ~Pending(k, o)
    /\ \A p \in Objects : Pending(h, p) => p = o
    /\ Still({h}) /\ src' = src /\ then' = then
    /\ pc'[h] = "ready" /\ raw'[h] = o /\ cb'[h] = b
    /\ \A p \in Objects \ {o} : IF Used(b, p) THEN object'[p].state = "destroyed"
                                ELSE object'[p] = object[p]
    /\ o # Null => object'[o].state = "alive"
    /\ \A c \in Blocks \ {b} : block'[c] = block[c]
    /\ block'[b].state = "live" /\ (block'[b].managed <=> o # Null)
    /\ IF o = Null THEN block'[b].m_object = Null
       ELSE Fits(b, o)' /\ block'[b].count = 1

LEMMA TakesKeeps ==
    ASSUME Sound, NEW h \in Handles, NEW b \in Blocks, NEW o \in Objects \cup {Null},
           Takes(h, b, o), TypeOK', fault' = "none"
    PROVE  Sound'
<1>1. /\ pc[h] \in {"dead", "reset sole", "reset shared"}
      /\ \A k \in Handles : src[k] # h
      /\ src' = src /\ then' = then
      /\ pc'[h] = "ready" /\ raw'[h] = o /\ cb'[h] = b
    BY DEF Takes
<1>2. ASSUME NEW k \in Handles \ {h}
      PROVE  /\ pc'[k] = pc[k] /\ raw'[k] = raw[k] /\ cb'[k] = cb[k]
             /\ tmp'[k] = tmp[k] /\ then'[k] = then[k]
    BY DEF Takes, Still
<1>3. \A k \in Handles \ {h} : cb[k] = b => pc[k] = "reset shared"
    BY DEF Takes
<1>4. \A k \in Handles \ {h}, p \in Objects \cup {Null} : ~Uses(k, b, p)
    BY DEF Takes
<1>5. o # Null => /\ \A c \in Blocks : ~Used(c, o)
                  /\ \A k \in Handles \ {h} : ~Pending(k, o)
    BY DEF Takes
<1>6. \A c \in Blocks \ {b} : block'[c] = block[c]
    BY DEF Takes
<1>7. block'[b].state = "live" /\ (block'[b].managed <=> o # Null)
    BY DEF Takes
<1>8. o = Null => block'[b].m_object = Null
    BY DEF Takes
<1>9. o # Null => object'[o].state = "alive" /\ Fits(b, o)' /\ block'[b].count = 1
    BY DEF Takes
<1>10. ASSUME NEW c \in Blocks \cup {Null}, NEW p \in Objects \cup {Null}, c # Null \/ p # Null
       PROVE  Used(c, p)' <=> (c # b /\ Used(c, p)) \/ (c = b /\ p = o)
    <2>1. ASSUME NEW k \in Handles \ {h}
          PROVE  Uses(k, c, p)' <=> Uses(k, c, p)
        BY <1>2 DEF Uses, Main, Temp
    <2>2. Uses(h, c, p)' <=> c = b /\ p = o
        BY <1>1 DEF Uses, Main, Temp
    <2>3. Uses(h, c, p) => c = b
        BY <1>10 DEF Takes
    <2> QED BY <1>4, <2>1, <2>2, <2>3 DEF Used
<1>11. ASSUME NEW p \in Objects
       PROVE  /\ \A k \in Handles \ {h} : Pending(k, p)' <=> Pending(k, p)
              /\ ~Pending(h, p)'
    BY <1>1, <1>2 DEF Pending
<1>12. ASSUME NEW p \in Objects \ {o}, ~Used(b, p)
       PROVE  object'[p] = object[p]
    BY <1>12 DEF Takes
<1>13. Shape'
    <2>1. ShapeOf(h)'
        BY <1>1, <1>7, NullAssumption DEF ShapeOf
    <2>2. ASSUME NEW k \in Handles \ {h}
          PROVE  ShapeOf(k)'
        <3>1. ShapeOf(k) /\ cb[k] \in Blocks \cup {Null}
            BY DEF Sound, Shape, TypeOK
        <3>2. CASE cb[k] = b
            BY <1>2, <1>3, <1>7, <3>1, <3>2 DEF ShapeOf
        <3>3. CASE cb[k] # b
            <4>1. cb[k] # Null => block'[cb[k]] = block[cb[k]]
                BY <1>6, <3>1, <3>3
            <4> QED BY <1>2, <3>1, <4>1 DEF ShapeOf
        <3> QED BY <3>2, <3>3
    <2> QED BY <2>1, <2>2 DEF Shape
<1>14. Sources'
    <2>1. src[h] = Null
        BY <1>1 DEF Sound, Sources
    <2>2. Still({h}) /\ pc'[h] \notin {"copy", "assign"} /\ src'[h] = Null
        BY <1>1, <2>1 DEF Takes
    <2>3. \A k \in Handles \ {h} : src[k] \notin {h}
        BY <1>1
    <2>4. \A k \in {h} : pc'[k] \notin {"copy", "assign"} /\ src'[k] = Null
        BY <2>2
    <2> QED BY <2>2, <2>3, <2>4, SourcesStay DEF Sound
<1>15. Agree'
    <2>1. \A p \in Objects : ~Used(Null, p)'
        BY <1>10, NullAssumption DEF Sound, Agree
    <2>2. ASSUME NEW c \in Blocks, NEW p \in Objects, Used(c, p)'
          PROVE  /\ block'[c].state = "live" /\ block'[c].managed
                 /\ object'[p].state = "alive" /\ Fits(c, p)'
        <3>1. CASE c = b
            <4>1. p = o /\ o # Null
                BY <1>10, <2>2, <3>1, NullAssumption
            <4>2. Fits(b, o)'
                BY <1>9, <4>1
            <4>3. Fits(c, p)'
                BY <3>1, <4>1, <4>2 DEF Fits
            <4> QED BY <1>7, <1>9, <3>1, <4>1, <4>3
        <3>2. CASE c # b
            <4>1. Used(c, p)
                BY <1>10, <2>2, <3>2, NullAssumption
            <4>2. p # o /\ ~Used(b, p)
                BY <1>5, <3>2, <4>1, NullAssumption DEF Sound, Agree
            <4>3. block'[c] = block[c] /\ object'[p] = object[p]
                BY <1>6, <1>12, <3>2, <4>2
            <4>4. /\ block[c].state = "live" /\ block[c].managed
                  /\ object[p].state = "alive" /\ Fits(c, p)
                BY <4>1 DEF Sound, Agree
            <4> QED BY <4>3, <4>4 DEF Fits
        <3> QED BY <3>1, <3>2
    <2>3. ASSUME NEW c \in Blocks, Used(c, Null)'
          PROVE  block'[c].state = "live" /\ ~block'[c].managed /\ block'[c].m_object = Null
        <3>1. CASE c = b
            <4>1. o = Null
                BY <1>10, <2>3, <3>1, NullAssumption
            <4> QED BY <1>7, <1>8, <3>1, <4>1
        <3>2. CASE c # b
            <4>1. Used(c, Null)
                BY <1>10, <2>3, <3>2, NullAssumption
            <4> QED BY <1>6, <3>2, <4>1 DEF Sound, Agree
        <3> QED BY <3>1, <3>2
    <2>4. ASSUME NEW c \in Blocks, NEW k \in Blocks, NEW p \in Objects, NEW q \in Objects,
                 Used(c, p)', Used(k, q)'
          PROVE  c = k <=> p = q
        <3>1. (c # b /\ Used(c, p)) \/ (c = b /\ p = o)
            BY <1>10, <2>4, NullAssumption
        <3>2. (k # b /\ Used(k, q)) \/ (k = b /\ q = o)
            BY <1>10, <2>4, NullAssumption
        <3> QED BY <1>5, <3>1, <3>2, NullAssumption DEF Sound, Agree
    <2> QED BY <2>1, <2>2, <2>3, <2>4 DEF Agree
<1>16. Resets'
    <2>1. ASSUME NEW g \in Handles, NEW p \in Objects, Pending(g, p)'
          PROVE  /\ object'[p].state = "alive" /\ object'[p].deleter = Default(g)
                 /\ \A c \in Blocks : ~Used(c, p)'
                 /\ \A k \in Handles \ {g} : ~Pending(k, p)'
        <3>1. g # h /\ Pending(g, p)
            BY <1>11, <2>1
        <3>2. /\ object[p].state = "alive" /\ object[p].deleter = Default(g)
              /\ \A c \in Blocks : ~Used(c, p)
              /\ \A k \in Handles \ {g} : ~Pending(k, p)
            BY <3>1 DEF Sound, Resets
        <3>3. p # o
            BY <1>5, <3>1, NullAssumption
        <3>4. object'[p] = object[p]
            BY <1>12, <3>2, <3>3
        <3>5. \A c \in Blocks : ~Used(c, p)'
            BY <1>10, <3>2, <3>3, NullAssumption
        <3>6. \A k \in Handles \ {g} : ~Pending(k, p)'
            BY <1>11, <3>2
        <3> QED BY <3>2, <3>4, <3>5, <3>6
    <2>2. ASSUME NEW g \in Handles, pc'[g] = "reset sole"
          PROVE  Keepable(g)'
        <3>1. g # h
            BY <1>1, <2>2
        <3>2. pc[g] = "reset sole" /\ cb'[g] = cb[g] /\ tmp'[g] = tmp[g]
            BY <1>2, <2>2, <3>1
        <3>3. cb[g] \in Blocks \ {b}
            BY <1>3, <3>1, <3>2 DEF Sound, TypeOK, Shape, ShapeOf
        <3>4. Keepable(g)
            BY <3>2 DEF Sound, Resets
        <3>5. Default(g)' = Default(g) /\ block'[cb'[g]] = block[cb[g]]
            BY <1>6, <3>2, <3>3 DEF Default
        <3> QED BY <3>2, <3>4, <3>5 DEF Keepable, Dead
    <2>3. \A g \in Handles : Default(g)' = Default(g)
        BY DEF Default
    <2> QED BY <2>1, <2>2, <2>3 DEF Resets
<1>17. Claims'
    <2>1. ASSUME NEW g \in Handles, NEW c \in Blocks, Claim(g, c)'
          PROVE  /\ \A k \in Handles \ {g}, p \in Objects \cup {Null} : ~Uses(k, c, p)'
                 /\ pc'[g] = "last" => cb'[g] # c
        <3>1. g # h
            BY <1>1, <2>1 DEF Claim
        <3>2. Claim(g, c) /\ pc'[g] = pc[g] /\ cb'[g] = cb[g]
            BY <1>2, <2>1, <3>1 DEF Claim
        <3>3. c # b
            <4>1. CASE pc[g] = "last"
                <5>1. tmp[g].cb = c /\ tmp[g].raw \in Objects
                    BY <3>2, <4>1 DEF Claim, Sound, TypeOK, Pointers, Shape, ShapeOf
                <5>2. Uses(g, c, tmp[g].raw)
                    BY <4>1, <5>1, NullAssumption DEF Uses, Temp
                <5> QED BY <1>4, <3>1, <5>1, <5>2
            <4>2. CASE pc[g] = "reset sole"
                BY <1>3, <3>1, <3>2, <4>2 DEF Claim
            <4> QED BY <3>2, <4>1, <4>2 DEF Claim
        <3>4. ASSUME NEW k \in Handles \ {g}, NEW p \in Objects \cup {Null}
              PROVE  ~Uses(k, c, p)'
            <4>1. CASE k = h
                BY <1>1, <3>3, <4>1 DEF Uses, Main, Temp
            <4>2. CASE k # h
                <5>1. ~Uses(k, c, p)
                    BY <3>2 DEF Sound, Claims
                <5> QED BY <1>2, <4>2, <5>1 DEF Uses, Main, Temp
            <4> QED BY <4>1, <4>2
        <3> QED BY <3>2, <3>4 DEF Sound, Claims
    <2> QED BY <2>1 DEF Claims
<1>18. Exact'
    <2>1. ASSUME NEW c \in Blocks \ {b}
          PROVE  Owners(c)' = Owners(c) /\ Dropping(c)' = Dropping(c)
        <3>1. Owners(c)' = Owners(c)
            BY <1>1, <1>2 DEF Owners
        <3>2. Dropping(c)' = Dropping(c)
            BY <1>1, <1>2 DEF Dropping
        <3> QED BY <3>1, <3>2
    <2>2. o # Null => Owners(b)' = {h} /\ Dropping(b)' = {}
        <3>1. o # Null => Owners(b)' = {h}
            BY <1>1, <1>2, <1>3, ZenonT(30) DEF Owners
        <3>2. ASSUME NEW k \in Handles, k # h
              PROVE  ~(pc[k] = "release" /\ tmp[k].cb = b /\ tmp[k].raw # Null)
            <4>1. tmp[k].raw \in Objects \cup {Null}
                BY DEF Sound, TypeOK, Pointers
            <4> QED BY <1>4, <3>2, <4>1 DEF Uses, Temp
        <3>3. Dropping(b)' = {}
            BY <1>1, <1>2, <3>2 DEF Dropping
        <3> QED BY <3>1, <3>3
    <2>3. Cardinality({h}) = 1 /\ Cardinality({}) = 0
        BY FS_Singleton, FS_EmptySet
    <2>4. ASSUME NEW c \in Blocks, block'[c].state = "live", block'[c].managed
          PROVE  block'[c].count = Cardinality(Owners(c)') + Cardinality(Dropping(c)')
        <3>1. CASE c = b
            BY <1>7, <1>9, <2>2, <2>3, <2>4, <3>1
        <3>2. CASE c # b
            BY <1>6, <2>1, <2>4, <3>2 DEF Sound, Exact
        <3> QED BY <3>1, <3>2
    <2> QED BY <2>4 DEF Exact
<1>19. Kept'
    <2>1. ASSUME NEW c \in Blocks, block'[c].state = "live", block'[c].managed
          PROVE  \E p \in Objects : Used(c, p)'
        <3>1. CASE c = b
            BY <1>7, <1>10, <2>1, <3>1, NullAssumption
        <3>2. CASE c # b
            BY <1>6, <1>10, <2>1, <3>2, NullAssumption DEF Sound, Kept
        <3> QED BY <3>1, <3>2
    <2>2. ASSUME NEW p \in Objects, object'[p].state = "alive"
          PROVE  (\E c \in Blocks : Used(c, p)') \/ (\E g \in Handles : Pending(g, p)')
        <3>1. CASE p = o
            BY <1>10, <3>1, NullAssumption
        <3>2. CASE p # o
            <4>1. ~Used(b, p)
                BY <2>2, <3>2 DEF Takes
            <4>2. object'[p] = object[p]
                BY <1>12, <3>2, <4>1
            <4>3. CASE \E c \in Blocks : Used(c, p)
                <5>1. PICK c \in Blocks : Used(c, p)
                    BY <4>3
                <5> QED BY <1>10, <4>1, <5>1, NullAssumption
            <4>4. CASE \E g \in Handles : Pending(g, p)
                <5>1. PICK g \in Handles : Pending(g, p)
                    BY <4>4
                <5>2. g # h
                    BY <3>2, <5>1 DEF Takes
                <5> QED BY <1>11, <5>1, <5>2
            <4> QED BY <2>2, <4>2, <4>3, <4>4 DEF Sound, Kept
        <3> QED BY <3>1, <3>2
    <2> QED BY <2>1, <2>2 DEF Kept
<1> QED BY <1>13, <1>14, <1>15, <1>16, <1>17, <1>18, <1>19 DEF Sound

LEMMA MoreThanOne == CountMod \in Nat /\ \A h \in Handles : CountMod > 1
<1>1. CountMod \in Nat /\ CountMod > 2 * Cardinality(Handles) /\ Cardinality(Handles) \in Nat
    BY CountAssumption, FS_CardinalityType
<1>2. ASSUME NEW h \in Handles
      PROVE  Cardinality(Handles) # 0
    BY CountAssumption, FS_EmptySet
<1>3. ASSUME NEW h \in Handles
      PROVE  CountMod > 1
    BY <1>1, <1>2
<1> QED BY <1>1, <1>3

\* The object that comes with a new block, if one does, and the block that suits it.
Equipped(o, stored, d, e, n) ==
    /\ o = Null => object' = object
    /\ o # Null => /\ Fresh(o) /\ Born(o, e) /\ n = 1
                   /\ stored = Null => e = d
                   /\ stored # Null => e = "inside block"

LEMMA NewBlockKeeps ==
    ASSUME Sound, NEW h \in Handles, NEW b \in Blocks, Stillborn(h), Unused(b),
           NEW o \in Objects \cup {Null}, NEW stored \in {Null, o},
           NEW d \in Deleters, NEW e \in Deleters, NEW n \in {0, 1},
           NEW m \in BOOLEAN, m <=> o # Null,
           NewBlock(b, n, d, stored, m),
           Become(h, [raw |-> o, cb |-> b], "ready"),
           UNCHANGED <<tmp, src, then, fault, abused>>,
           Equipped(o, stored, d, e, n)
    PROVE  Sound'
<1>1. /\ pc[h] = "dead" /\ raw[h] = Null /\ cb[h] = Null
      /\ \A g \in Handles : src[g] # h
    BY DEF Stillborn, Sound, Shape, ShapeOf
<1>2. /\ raw' = [raw EXCEPT ![h] = o] /\ cb' = [cb EXCEPT ![h] = b]
      /\ pc' = [pc EXCEPT ![h] = "ready"]
    BY DEF Become
<1>3. \A g \in Handles : cb[g] # b
    BY NullAssumption DEF Unused, Sound, Shape, ShapeOf
<1>4. \A p \in Objects \cup {Null} : ~Used(b, p)
    BY DEF Unused, Sound, Agree
<1>5. o # Null => \A c \in Blocks : ~Used(c, o)
    BY DEF Equipped, Fresh, Sound, Agree
<1>6. o # Null => \A g \in Handles : ~Pending(g, o)
    BY DEF Equipped, Fresh, Sound, Resets
<1>7. block'[b] = [state |-> "live", count |-> n, deleter |-> d, m_object |-> stored,
                   managed |-> m]
      /\ \A c \in Blocks \ {b} : block'[c] = block[c]
    BY DEF NewBlock, Sound, TypeOK
<1>8. /\ \A p \in Objects \ {o} : object'[p] = object[p]
      /\ o # Null => object'[o] = [state |-> "alive", deleter |-> e]
    BY DEF Equipped, Born, Sound, TypeOK
<1>9. TypeOK'
    <2>1. n \in 0..(CountMod - 1)
        BY MoreThanOne
    <2>2. [state |-> "live", count |-> n, deleter |-> d, m_object |-> stored,
           managed |-> m] \in ControlBlocks
        BY <2>1 DEF ControlBlocks
    <2>3. block' \in [Blocks -> ControlBlocks]
        BY <2>2 DEF NewBlock, Sound, TypeOK
    <2>4. [state |-> "alive", deleter |-> e] \in ManagedObjects
        BY DEF ManagedObjects
    <2>5. object' \in [Objects -> ManagedObjects]
        <3>1. CASE o = Null
            BY <3>1 DEF Equipped, Sound, TypeOK
        <3>2. CASE o # Null
            BY <3>2, <2>4 DEF Equipped, Born, Sound, TypeOK
        <3> QED BY <3>1, <3>2
    <2>6. /\ raw' \in [Handles -> Objects \cup {Null}] /\ cb' \in [Handles -> Blocks \cup {Null}]
          /\ pc' \in [Handles -> {"dead", "ready", "copy", "assign", "release", "last",
                                  "reset sole", "reset shared"}]
        BY <1>2 DEF Sound, TypeOK
    <2> QED BY <2>3, <2>5, <2>6 DEF Sound, TypeOK
<1>10. Still({h})
    BY <1>2 DEF Still, Sound, TypeOK
<1>11. pc'[h] = "ready" /\ raw'[h] = o /\ cb'[h] = b
    BY <1>2 DEF Sound, TypeOK
<1>12. o # Null => Fits(b, o)' /\ block'[b].count = 1
    <2>1. /\ block'[b].count = n /\ block'[b].m_object = stored /\ block'[b].deleter = d
          /\ o # Null => object'[o].deleter = e
        BY <1>7, <1>8
    <2> QED BY <2>1 DEF Equipped, Fits
<1>13. \A k \in Handles \ {h}, p \in Objects \cup {Null} : ~Uses(k, b, p)
    BY <1>4 DEF Used
<1>14. \A c \in Blocks \cup {Null}, p \in Objects \cup {Null} :
          (c # Null \/ p # Null) => ~Uses(h, c, p)
    BY <1>1 DEF Uses, Main, Temp
<1>15. \A p \in Objects : ~Pending(h, p)
    BY <1>1 DEF Pending
<1>16. block'[b].state = "live" /\ (block'[b].managed <=> o # Null)
    BY <1>7
<1>17. o = Null => block'[b].m_object = Null
    BY <1>7
<1>18. o # Null => object'[o].state = "alive"
    BY <1>8
<1>19. Takes(h, b, o)
    BY <1>1, <1>3, <1>4, <1>5, <1>6, <1>7, <1>8, <1>10, <1>11, <1>12, <1>13, <1>14, <1>15,
       <1>16, <1>17, <1>18 DEF Takes
<1>20. fault' = "none"
    BY DEF Sound
<1> QED BY <1>9, <1>19, <1>20, TakesKeeps

LEMMA ConstructEmptyKeeps ==
    ASSUME Sound, NEW h \in Handles, NEW n \in {0, 1}, NEW d \in Deleters, ConstructEmpty(h, n, d)
    PROVE  Sound'
<1>1. PICK b \in Blocks : /\ Unused(b) /\ NewBlock(b, n, d, Null, FALSE)
                          /\ Become(h, [raw |-> Null, cb |-> b], "ready")
    BY DEF ConstructEmpty
<1>2. /\ Stillborn(h) /\ UNCHANGED <<tmp, src, then, fault, abused>>
      /\ Equipped(Null, Null, d, d, n)
    BY DEF ConstructEmpty, Equipped
<1> QED BY <1>1, <1>2, NewBlockKeeps

LEMMA ConstructFromKeeps ==
    ASSUME Sound, NEW h \in Handles, NEW o \in Objects, NEW d \in Deleters, ConstructFrom(h, o, d)
    PROVE  Sound'
<1>1. PICK b \in Blocks : /\ Unused(b) /\ NewBlock(b, 1, d, Null, TRUE)
                          /\ Become(h, [raw |-> o, cb |-> b], "ready")
    BY DEF ConstructFrom
<1>2. /\ Stillborn(h) /\ UNCHANGED <<tmp, src, then, fault, abused>>
      /\ Equipped(o, Null, d, d, 1) /\ o # Null
    BY NullAssumption DEF ConstructFrom, Equipped
<1> QED BY <1>1, <1>2, NewBlockKeeps

LEMMA MakeSharedKeeps ==
    ASSUME Sound, NEW h \in Handles, NEW o \in Objects, MakeShared(h, o)
    PROVE  Sound'
<1>1. PICK b \in Blocks : /\ Unused(b) /\ NewBlock(b, 1, "default", o, TRUE)
                          /\ Become(h, [raw |-> o, cb |-> b], "ready")
    BY DEF MakeShared
<1>2. /\ Stillborn(h) /\ UNCHANGED <<tmp, src, then, fault, abused>>
      /\ Equipped(o, o, "default", "inside block", 1) /\ o # Null
    BY NullAssumption DEF MakeShared, Equipped
<1>3. "default" \in Deleters /\ "inside block" \in Deleters
    BY DEF Deleters
<1> QED BY <1>1, <1>2, <1>3, NewBlockKeeps

\* The end of reset: other owners remain.
LEMMA ResetSharedKeeps ==
    ASSUME Sound, NEW h \in Handles, ResetShared(h)
    PROVE  Sound'
<1>0. PICK o \in Objects \cup {Null} : o = tmp[h].raw
    BY DEF ResetShared, Sound, TypeOK, Pointers
<1>1. PICK b \in Blocks : /\ Unused(b) /\ NewBlock(b, 1, Default(h), Null, o # Null)
                          /\ Become(h, [raw |-> o, cb |-> b], "ready")
    BY <1>0 DEF ResetShared
<1>2. /\ pc[h] = "reset shared" /\ tmp' = [tmp EXCEPT ![h] = NoPtr]
      /\ UNCHANGED <<src, then, object, fault, abused>>
    BY DEF ResetShared
<1>4. /\ raw' = [raw EXCEPT ![h] = o] /\ cb' = [cb EXCEPT ![h] = b]
      /\ pc' = [pc EXCEPT ![h] = "ready"]
    BY <1>1 DEF Become
<1>5. \A g \in Handles : cb[g] # b
    BY <1>1, NullAssumption DEF Unused, Sound, Shape, ShapeOf
<1>6. \A p \in Objects \cup {Null} : ~Used(b, p)
    BY <1>1 DEF Unused, Sound, Agree
<1>7. Pending(h, o)
    BY <1>0, <1>2 DEF Pending
<1>8. o # Null => /\ object[o].state = "alive" /\ object[o].deleter = Default(h)
                  /\ \A c \in Blocks : ~Used(c, o)
                  /\ \A k \in Handles \ {h} : ~Pending(k, o)
    BY <1>7 DEF Sound, Resets
<1>9. block'[b] = [state |-> "live", count |-> 1, deleter |-> Default(h), m_object |-> Null,
                   managed |-> o # Null]
      /\ \A c \in Blocks \ {b} : block'[c] = block[c]
    BY <1>1 DEF NewBlock, Sound, TypeOK
<1>10. TypeOK'
    <2>1. 1 \in 0..(CountMod - 1)
        BY MoreThanOne
    <2>2. Default(h) \in Deleters
        BY DEF Default, Deleters
    <2>3. \A m \in BOOLEAN :
             [state |-> "live", count |-> 1, deleter |-> Default(h), m_object |-> Null,
              managed |-> m] \in ControlBlocks
        BY <2>1, <2>2 DEF ControlBlocks
    <2>4. block' \in [Blocks -> ControlBlocks]
        <3>1. (o # Null) \in BOOLEAN
            OBVIOUS
        <3>2. PICK m \in BOOLEAN : m = (o # Null)
            BY <3>1
        <3> QED BY <1>1, <2>3, <3>2 DEF NewBlock, Sound, TypeOK
    <2>5. NoPtr \in Pointers
        BY DEF NoPtr, Pointers
    <2>6. /\ raw' \in [Handles -> Objects \cup {Null}] /\ cb' \in [Handles -> Blocks \cup {Null}]
          /\ tmp' \in [Handles -> Pointers]
          /\ pc' \in [Handles -> {"dead", "ready", "copy", "assign", "release", "last",
                                  "reset sole", "reset shared"}]
        BY <1>2, <1>4, <2>5 DEF Sound, TypeOK
    <2> QED BY <1>2, <2>4, <2>6 DEF Sound, TypeOK
<1>11. Still({h})
    BY <1>2, <1>4 DEF Still, Sound, TypeOK
<1>12. pc'[h] = "ready" /\ raw'[h] = o /\ cb'[h] = b
    BY <1>4 DEF Sound, TypeOK
<1>13. (o # Null => Fits(b, o)' /\ block'[b].count = 1) /\ block'[b].m_object = Null
    <2>1. block'[b].count = 1 /\ block'[b].m_object = Null /\ block'[b].deleter = Default(h)
        BY <1>9
    <2>2. object'[o] = object[o]
        BY <1>2
    <2> QED BY <1>8, <2>1, <2>2 DEF Fits
<1>14. \A k \in Handles \ {h}, p \in Objects \cup {Null} : ~Uses(k, b, p)
    BY <1>6 DEF Used
<1>15. \A c \in Blocks \cup {Null}, p \in Objects \cup {Null} :
          (c # Null \/ p # Null) => ~Uses(h, c, p)
    BY <1>2 DEF Uses, Main, Temp
<1>16. \A p \in Objects : Pending(h, p) => p = o
    BY <1>0 DEF Pending
<1>17. \A k \in Handles : src[k] # h
    BY <1>2, NullAssumption DEF Sound, Sources
<1>19. /\ object' = object /\ src' = src /\ then' = then
       /\ block'[b].state = "live" /\ (block'[b].managed <=> o # Null)
    <2>1. PICK m \in BOOLEAN : m = (o # Null)
        OBVIOUS
    <2>2. block'[b].state = "live" /\ block'[b].managed = m
        BY <1>9, <2>1
    <2>3. block'[b].managed <=> o # Null
        BY <2>1, <2>2
    <2> QED BY <1>2, <2>2, <2>3
<1>20. Takes(h, b, o)
    BY <1>2, <1>5, <1>6, <1>8, <1>9, <1>11, <1>12, <1>13, <1>14, <1>15, <1>16, <1>17, <1>19 DEF Takes
<1>21. fault' = "none"
    BY <1>2 DEF Sound
<1> QED BY <1>10, <1>20, <1>21, TakesKeeps

\* The deleter that runs is the object's own, and not a client's.
LEMMA DeleterFits ==
    ASSUME NEW o \in Objects, object[o].state = "alive", ~Dead(object[o].deleter)
    PROVE  DestroyFault(o, object[o].deleter) = "none"
BY DEF DestroyFault

LEMMA DestroyedTyped ==
    ASSUME NEW o \in Objects, object \in [Objects -> ManagedObjects]
    PROVE  Destroyed(o) \in [Objects -> ManagedObjects]
<1>1. object[o].deleter \in Deleters
    BY DEF ManagedObjects
<1>2. [object[o] EXCEPT !.state = "destroyed"] \in ManagedObjects
    BY <1>1 DEF ManagedObjects
<1> QED BY <1>2 DEF Destroyed

\* The end of reset: no other owner, and the handle keeps its block.
LEMMA ResetSoleKeeps ==
    ASSUME Sound, NEW h \in Handles, ResetSole(h)
    PROVE  Sound'
<1>1. PICK n \in Objects \cup {Null} : n = tmp[h].raw
    BY DEF ResetSole, Sound, TypeOK, Pointers
<1>2. PICK b \in Blocks : b = cb[h]
    BY DEF ResetSole, Sound, TypeOK, Shape, ShapeOf
<1>3. PICK o \in Objects \cup {Null} : o = raw[h]
    BY DEF Sound, TypeOK
<1>4. /\ pc[h] = "reset sole" /\ tmp' = [tmp EXCEPT ![h] = NoPtr]
      /\ src' = src /\ then' = then
      /\ Become(h, [raw |-> n, cb |-> b], "ready")
      /\ block' = [block EXCEPT ![b].count = 1, ![b].managed = n # Null]
    BY <1>1, <1>2 DEF ResetSole, StoreOne
<1>9. /\ block[b].m_object = Null /\ ~Dead(block[b].deleter)
      /\ n # Null => block[b].deleter = Default(h)
    BY <1>1, <1>2, <1>4 DEF Sound, Resets, Keepable
<1>5. IF o = Null THEN object' = object /\ fault' = fault
      ELSE object' = Destroyed(o) /\ fault' = DestroyFault(o, block[b].deleter)
    BY <1>2, <1>3, <1>9 DEF ResetSole
<1>6. /\ raw' = [raw EXCEPT ![h] = n] /\ cb' = [cb EXCEPT ![h] = b]
      /\ pc' = [pc EXCEPT ![h] = "ready"]
    BY <1>4 DEF Become
<1>7. Pending(h, n)
    BY <1>1, <1>4 DEF Pending
<1>8. n # Null => /\ object[n].state = "alive" /\ object[n].deleter = Default(h)
                  /\ \A c \in Blocks : ~Used(c, n)
                  /\ \A k \in Handles \ {h} : ~Pending(k, n)
    BY <1>7 DEF Sound, Resets
<1>10. Uses(h, b, o)
    BY <1>2, <1>3, <1>4 DEF Uses, Main
<1>11. \A k \in Handles \ {h}, p \in Objects \cup {Null} : ~Uses(k, b, p)
    BY <1>2, <1>4 DEF Sound, Claims, Claim
<1>12. \A c \in Blocks \cup {Null}, p \in Objects \cup {Null} :
          (c # Null \/ p # Null) /\ Uses(h, c, p) => c = b /\ p = o
    BY <1>2, <1>3, <1>4 DEF Uses, Main, Temp
<1>13. \A p \in Objects \cup {Null} : Used(b, p) <=> p = o
    BY <1>10, <1>11, <1>12, NullAssumption DEF Used
<1>14. n # Null => n # o
    BY <1>8, <1>13, NullAssumption
<1>15. block[b].state = "live" /\ (o # Null => object[o].state = "alive" /\ Fits(b, o))
    BY <1>13, NullAssumption DEF Sound, Agree
<1>16. o # Null => object[o].deleter = block[b].deleter
    BY <1>9, <1>15 DEF Fits
<1>17. fault' = "none"
    <2>1. CASE o = Null
        BY <1>5, <2>1 DEF Sound
    <2>2. CASE o # Null
        BY <1>5, <1>9, <1>15, <1>16, <2>2, DeleterFits
    <2> QED BY <2>1, <2>2
<1>18. /\ block'[b].count = 1 /\ block'[b].m_object = Null
       /\ block'[b].deleter = block[b].deleter
       /\ block'[b].state = "live"
       /\ \A c \in Blocks \ {b} : block'[c] = block[c]
    BY <1>4, <1>9, <1>15 DEF Sound, TypeOK, ControlBlocks
<1>19. block'[b].managed <=> n # Null
    BY <1>4 DEF Sound, TypeOK, ControlBlocks
<1>20. /\ \A p \in Objects \ {o} : object'[p] = object[p]
       /\ o # Null => object'[o].state = "destroyed"
    BY <1>5 DEF Destroyed, Sound, TypeOK, ManagedObjects
<1>21. TypeOK'
    <2>1. 1 \in 0..(CountMod - 1)
        BY MoreThanOne
    <2>2. block' \in [Blocks -> ControlBlocks]
        <3>1. block[b] \in ControlBlocks
            BY DEF Sound, TypeOK
        <3>2. PICK m \in BOOLEAN : m = (n # Null)
            OBVIOUS
        <3>3. [block[b] EXCEPT !.count = 1, !.managed = m] \in ControlBlocks
            BY <2>1, <3>1 DEF ControlBlocks
        <3>4. block' = [block EXCEPT ![b] = [block[b] EXCEPT !.count = 1, !.managed = m]]
            BY <1>4, <3>2 DEF Sound, TypeOK
        <3> QED BY <3>3, <3>4 DEF Sound, TypeOK
    <2>3. object' \in [Objects -> ManagedObjects]
        <3>1. CASE o = Null
            BY <1>5, <3>1 DEF Sound, TypeOK
        <3>2. CASE o # Null
            BY <1>5, <3>2, DestroyedTyped DEF Sound, TypeOK
        <3> QED BY <3>1, <3>2
    <2>4. NoPtr \in Pointers
        BY DEF NoPtr, Pointers
    <2>5. /\ raw' \in [Handles -> Objects \cup {Null}] /\ cb' \in [Handles -> Blocks \cup {Null}]
          /\ tmp' \in [Handles -> Pointers]
          /\ pc' \in [Handles -> {"dead", "ready", "copy", "assign", "release", "last",
                                  "reset sole", "reset shared"}]
        BY <1>4, <1>6, <2>4 DEF Sound, TypeOK
    <2>6. src' = src /\ then' = then /\ abused' = abused
        BY DEF ResetSole
    <2> QED BY <1>17, <2>2, <2>3, <2>5, <2>6 DEF Sound, TypeOK
<1>22. Still({h})
    BY <1>4, <1>6 DEF Still, Sound, TypeOK
<1>23. pc'[h] = "ready" /\ raw'[h] = n /\ cb'[h] = b
    BY <1>6 DEF Sound, TypeOK
<1>24. n # Null => Fits(b, n)'
    <2>1. n # Null => object'[n] = object[n]
        BY <1>14, <1>20
    <2> QED BY <1>8, <1>9, <1>18, <2>1 DEF Fits
<1>25. \A p \in Objects : Pending(h, p) => p = n
    BY <1>1 DEF Pending
<1>26. \A k \in Handles : src[k] # h
    BY <1>4, NullAssumption DEF Sound, Sources
<1>27. \A k \in Handles \ {h} : cb[k] = b => pc[k] = "reset shared"
    <2>1. ASSUME NEW k \in Handles \ {h}, cb[k] = b, pc[k] # "reset shared"
          PROVE  FALSE
        <3>1. raw[k] \in Objects \cup {Null}
            BY DEF Sound, TypeOK
        <3> QED BY <1>11, <2>1, <3>1 DEF Uses, Main
    <2> QED BY <2>1
<1>28. \A p \in Objects \ {n} : IF Used(b, p) THEN object'[p].state = "destroyed"
                                ELSE object'[p] = object[p]
    BY <1>13, <1>20, NullAssumption
<1>29. n # Null => object'[n].state = "alive"
    BY <1>8, <1>14, <1>20
<1>30. Takes(h, b, n)
    BY <1>4, <1>8, <1>11, <1>12, <1>14, <1>18, <1>19, <1>22, <1>23, <1>24, <1>25, <1>26, <1>27,
       <1>28, <1>29 DEF Takes
<1> QED BY <1>17, <1>21, <1>30, TakesKeeps

-----------------------------------------------------------------------------
(* Handing pointers over *)

LEMMA StillUses ==
    ASSUME NEW C \in SUBSET Handles, Still(C), NEW k \in Handles \ C
    PROVE  /\ \A b \in Blocks \cup {Null}, o \in Objects \cup {Null} : Uses(k, b, o)' <=> Uses(k, b, o)
           /\ \A o \in Objects : Pending(k, o)' <=> Pending(k, o)
           /\ \A b \in Blocks : Claim(k, b)' <=> Claim(k, b)
<1>1. pc'[k] = pc[k] /\ raw'[k] = raw[k] /\ cb'[k] = cb[k] /\ tmp'[k] = tmp[k]
    BY DEF Still
<1> QED BY <1>1 DEF Uses, Main, Temp, Pending, Claim

LEMMA OtherUses ==
    ASSUME NEW h \in Handles, Still({h}), NEW k \in Handles, k # h
    PROVE  /\ \A b \in Blocks \cup {Null}, o \in Objects \cup {Null} : Uses(k, b, o)' <=> Uses(k, b, o)
           /\ \A o \in Objects : Pending(k, o)' <=> Pending(k, o)
           /\ \A b \in Blocks : Claim(k, b)' <=> Claim(k, b)
BY StillUses

\* Steps that hand over pointers among the handles of C, none of them alone with a block
\* or inside a reset, and change neither blocks nor objects.
LEMMA HandingOverKeeps ==
    ASSUME Sound, TypeOK', fault' = "none", block' = block, object' = object,
           NEW C \in SUBSET Handles, Still(C), Sources',
           \A k \in C : ShapeOf(k)',
           \A k \in C : /\ pc[k] \notin {"last", "reset sole", "reset shared"}
                        /\ pc'[k] \notin {"last", "reset sole", "reset shared"},
           \A k \in C, b \in Blocks \cup {Null}, o \in Objects \cup {Null} :
              (b # Null \/ o # Null) /\ Uses(k, b, o)' => \E i \in C : Uses(i, b, o),
           \A k \in C, b \in Blocks, o \in Objects :
              Uses(k, b, o) => \E i \in C : Uses(i, b, o)',
           \A b \in Blocks : Cardinality(Owners(b)') + Cardinality(Dropping(b)')
                             = Cardinality(Owners(b)) + Cardinality(Dropping(b))
    PROVE  Sound'
<1>1. \A k \in Handles, o \in Objects : Pending(k, o)' <=> Pending(k, o)
    BY StillUses DEF Pending
<1>2. FewerUses
    <2>1. ASSUME NEW k \in Handles, NEW b \in Blocks \cup {Null}, NEW o \in Objects \cup {Null},
                 b # Null \/ o # Null, Uses(k, b, o)'
          PROVE  \E i \in Handles : Uses(i, b, o) /\ (i = k \/ pc[i] \notin {"last", "reset sole"})
        <3>1. CASE k \in C
            BY <2>1, <3>1
        <3>2. CASE k \notin C
            BY <2>1, <3>2, StillUses
        <3> QED BY <3>1, <3>2
    <2> QED BY <2>1 DEF FewerUses
<1>3. \A b \in Blocks : Alike(b)
    BY DEF Alike
<1>4. ASSUME NEW b \in Blocks, NEW o \in Objects, Used(b, o)
      PROVE  Used(b, o)'
    <2>1. PICK k \in Handles : Uses(k, b, o)
        BY <1>4 DEF Used
    <2>2. CASE k \in C
        BY <2>1, <2>2 DEF Used
    <2>3. CASE k \notin C
        BY <2>1, <2>3, StillUses DEF Used
    <2> QED BY <2>2, <2>3
<1>5. ASSUME NEW k \in Handles, pc'[k] \in {"last", "reset sole"}
      PROVE  k \in Handles \ C /\ pc[k] = pc'[k] /\ cb'[k] = cb[k] /\ tmp'[k] = tmp[k]
    BY <1>5 DEF Still
<1>6. Shape'
    BY ShapeStays DEF Sound
<1>7. Agree'
    BY <1>2, <1>3, AgreeStays DEF Sound
<1>8. Resets'
    <2>1. ASSUME NEW k \in Handles, pc'[k] = "reset sole"
          PROVE  /\ pc[k] = "reset sole" /\ cb'[k] = cb[k] /\ cb[k] \in Blocks
                 /\ tmp'[k] = tmp[k]
        BY <1>5, <2>1 DEF Sound, Shape, ShapeOf, TypeOK
    <2> QED BY <1>1, <1>2, <1>3, <2>1, ResetsStay DEF Sound
<1>9. Claims'
    <2>1. ASSUME NEW k \in Handles, NEW b \in Blocks, Claim(k, b)'
          PROVE  /\ Claim(k, b) /\ pc[k] \in {"last", "reset sole"}
                 /\ pc'[k] = "last" => pc[k] = "last" /\ cb'[k] = cb[k]
        <3>1. pc'[k] \in {"last", "reset sole"}
            BY <2>1 DEF Claim
        <3>2. k \in Handles \ C /\ pc[k] = pc'[k] /\ cb'[k] = cb[k]
            BY <1>5, <3>1
        <3>3. Claim(k, b)
            BY <2>1, <3>2, StillUses
        <3> QED BY <3>1, <3>2, <3>3
    <2> QED BY <1>2, <2>1, ClaimsStay DEF Sound
<1>10. Exact'
    BY DEF Sound, Exact
<1>11. Kept'
    BY <1>1, <1>4, KeptStays DEF Sound
<1> QED BY <1>6, <1>7, <1>8, <1>9, <1>10, <1>11 DEF Sound

\* What the sets that the count stands for say of one handle.
LEMMA OthersCount ==
    ASSUME NEW C \in SUBSET Handles, Still(C), NEW b \in Blocks
    PROVE  /\ Owners(b) \ C = Owners(b)' \ C
           /\ Dropping(b) \ C = Dropping(b)' \ C
BY DEF Still, Owners, Dropping

LEMMA CountedNext ==
    ASSUME NEW b
    PROVE  /\ IsFiniteSet(Owners(b)') /\ Cardinality(Owners(b)') \in Nat
           /\ IsFiniteSet(Dropping(b)') /\ Cardinality(Dropping(b)') \in Nat
           /\ Cardinality(Owners(b)') <= Cardinality(Handles)
           /\ Cardinality(Dropping(b)') <= Cardinality(Handles)
<1>1. Owners(b)' \in SUBSET Handles /\ Dropping(b)' \in SUBSET Handles
    BY DEF Owners, Dropping
<1>2. IsFiniteSet(Handles)
    BY CountAssumption
<1> QED BY <1>1, <1>2, FS_Subset, FS_CardinalityType

\* How often handle k counts for block b.
Weight(k, b) == In(Owners(b), k) + In(Dropping(b), k)

LEMMA WeightType ==
    ASSUME NEW k, NEW b
    PROVE  Weight(k, b) \in Nat /\ Weight(k, b)' \in Nat
BY DEF Weight, In

LEMMA SumOfOne ==
    ASSUME NEW h \in Handles, Still({h}), NEW b \in Blocks
    PROVE  Cardinality(Owners(b)') + Cardinality(Dropping(b)') - Weight(h, b)'
           = Cardinality(Owners(b)) + Cardinality(Dropping(b)) - Weight(h, b)
<1>1. Owners(b) \ {h} = Owners(b)' \ {h} /\ Dropping(b) \ {h} = Dropping(b)' \ {h}
    BY OthersCount
<1>2. Cardinality(Owners(b)) - In(Owners(b), h) = Cardinality(Owners(b)') - In(Owners(b)', h)
    BY <1>1, Counted, CountedNext, OneChanged
<1>3. Cardinality(Dropping(b)) - In(Dropping(b), h) = Cardinality(Dropping(b)') - In(Dropping(b)', h)
    BY <1>1, Counted, CountedNext, OneChanged
<1>4. /\ In(Owners(b), h) \in Nat /\ In(Owners(b)', h) \in Nat
      /\ In(Dropping(b), h) \in Nat /\ In(Dropping(b)', h) \in Nat
    BY DEF In
<1>5. /\ Weight(h, b) = In(Owners(b), h) + In(Dropping(b), h)
      /\ Weight(h, b)' = In(Owners(b)', h) + In(Dropping(b)', h)
    BY DEF Weight, In
<1> QED BY <1>2, <1>3, <1>4, <1>5, Counted, CountedNext

LEMMA SumOfTwo ==
    ASSUME NEW h \in Handles, NEW g \in Handles, h # g, Still({h, g}), NEW b \in Blocks
    PROVE  Cardinality(Owners(b)') + Cardinality(Dropping(b)') - Weight(h, b)' - Weight(g, b)'
           = Cardinality(Owners(b)) + Cardinality(Dropping(b)) - Weight(h, b) - Weight(g, b)
<1>1. Owners(b) \ {h, g} = Owners(b)' \ {h, g} /\ Dropping(b) \ {h, g} = Dropping(b)' \ {h, g}
    BY OthersCount
<1>2. Cardinality(Owners(b)) - In(Owners(b), h) - In(Owners(b), g)
      = Cardinality(Owners(b)') - In(Owners(b)', h) - In(Owners(b)', g)
    BY <1>1, Counted, CountedNext, TwoChanged
<1>3. Cardinality(Dropping(b)) - In(Dropping(b), h) - In(Dropping(b), g)
      = Cardinality(Dropping(b)') - In(Dropping(b)', h) - In(Dropping(b)', g)
    BY <1>1, Counted, CountedNext, TwoChanged
<1>4. /\ In(Owners(b), h) \in Nat /\ In(Owners(b)', h) \in Nat
      /\ In(Dropping(b), h) \in Nat /\ In(Dropping(b)', h) \in Nat
      /\ In(Owners(b), g) \in Nat /\ In(Owners(b)', g) \in Nat
      /\ In(Dropping(b), g) \in Nat /\ In(Dropping(b)', g) \in Nat
    BY DEF In
<1>5. /\ Weight(h, b) = In(Owners(b), h) + In(Dropping(b), h)
      /\ Weight(h, b)' = In(Owners(b)', h) + In(Dropping(b)', h)
      /\ Weight(g, b) = In(Owners(b), g) + In(Dropping(b), g)
      /\ Weight(g, b)' = In(Owners(b)', g) + In(Dropping(b)', g)
    BY DEF Weight, In
<1> QED BY <1>2, <1>3, <1>4, <1>5, Counted, CountedNext

LEMMA WeightIs ==
    ASSUME NEW k \in Handles, NEW b \in Blocks
    PROVE  Weight(k, b) =
             (IF /\ cb[k] = b /\ raw[k] # Null
                 /\ pc[k] \in {"ready", "copy", "assign", "release", "last"} THEN 1 ELSE 0)
             + (IF pc[k] = "release" /\ tmp[k].cb = b /\ tmp[k].raw # Null THEN 1 ELSE 0)
BY DEF Weight, In, Owners, Dropping

LEMMA WeightWillBe ==
    ASSUME NEW k \in Handles, NEW b \in Blocks
    PROVE  Weight(k, b)' =
             (IF /\ cb'[k] = b /\ raw'[k] # Null
                 /\ pc'[k] \in {"ready", "copy", "assign", "release", "last"} THEN 1 ELSE 0)
             + (IF pc'[k] = "release" /\ tmp'[k].cb = b /\ tmp'[k].raw # Null THEN 1 ELSE 0)
BY DEF Weight, In, Owners, Dropping

LEMMA OneHandsOver ==
    ASSUME NEW h \in Handles, Still({h}), NEW b \in Blocks, Weight(h, b)' = Weight(h, b)
    PROVE  Cardinality(Owners(b)') + Cardinality(Dropping(b)')
           = Cardinality(Owners(b)) + Cardinality(Dropping(b))
BY SumOfOne, WeightType, Counted, CountedNext

LEMMA TwoHandOver ==
    ASSUME NEW h \in Handles, NEW g \in Handles, h # g, Still({h, g}), NEW b \in Blocks,
           Weight(h, b)' + Weight(g, b)' = Weight(h, b) + Weight(g, b)
    PROVE  Cardinality(Owners(b)') + Cardinality(Dropping(b)')
           = Cardinality(Owners(b)) + Cardinality(Dropping(b))
<1>1. Weight(h, b) \in Nat /\ Weight(h, b)' \in Nat /\ Weight(g, b) \in Nat /\ Weight(g, b)' \in Nat
    BY WeightType
<1> QED BY <1>1, SumOfTwo, Counted, CountedNext

-----------------------------------------------------------------------------
(* Copies and moves *)

\* The first half of a copy.
LEMMA ReadFromKeeps ==
    ASSUME Sound, NEW h \in Handles, NEW g \in Handles, NEW where \in {"copy", "assign"},
           \A k \in Handles : src[k] # h,
           pc[h] = (IF where = "copy" THEN "dead" ELSE "ready"),
           ReadFrom(h, g, where)
    PROVE  Sound'
<1>1. /\ pc[g] = "ready" /\ tmp' = [tmp EXCEPT ![h] = Ptr(g)] /\ src' = [src EXCEPT ![h] = g]
      /\ pc' = [pc EXCEPT ![h] = where]
      /\ UNCHANGED <<raw, cb, then, block, object, fault, abused>>
    BY DEF ReadFrom, Idle, heap
<1>2. TypeOK'
    <2>1. Ptr(g) \in Pointers
        BY DEF Ptr, Pointers, Sound, TypeOK
    <2> QED BY <1>1, <2>1 DEF Sound, TypeOK
<1>3. Still({h})
    BY <1>1 DEF Still, Sound, TypeOK
<1>4. /\ pc'[h] = where /\ raw'[h] = raw[h] /\ cb'[h] = cb[h] /\ tmp'[h] = Ptr(g) /\ src'[h] = g
      /\ block' = block /\ object' = object /\ fault' = "none"
    BY <1>1 DEF Sound, TypeOK
<1>5. ShapeOf(h)'
    <2>1. ShapeOf(h)
        BY DEF Sound, Shape
    <2> QED BY <1>4, <2>1 DEF ShapeOf
<1>6. Sources'
    <2>1. ASSUME NEW k \in Handles
          PROVE  IF pc'[k] \in {"copy", "assign"}
                 THEN /\ src'[k] # Null /\ tmp'[k] = Ptr(src[k])'
                      /\ pc'[src'[k]] = "ready" \/ src'[k] = k
                 ELSE src'[k] = Null
        <3>1. CASE k = h
            <4>1. Ptr(src[h])' = Ptr(g)
                BY <1>1, <1>4 DEF Ptr
            <4>2. pc'[g] = "ready" \/ g = h
                BY <1>1 DEF Sound, TypeOK
            <4> QED BY <1>4, <3>1, <4>1, <4>2, NullAssumption
        <3>2. CASE k # h
            <4>1. pc'[k] = pc[k] /\ src'[k] = src[k] /\ tmp'[k] = tmp[k]
                BY <1>3, <3>2 DEF Still
            <4>2. Ptr(src[k])' = Ptr(src[k])
                BY <1>1, <4>1 DEF Ptr
            <4>3. src[k] # Null => pc'[src[k]] = pc[src[k]]
                BY <1>3, ZenonT(30) DEF Still, Sound, TypeOK
            <4> QED BY <4>1, <4>2, <4>3 DEF Sound, Sources
        <3> QED BY <3>1, <3>2
    <2> QED BY <2>1 DEF Sources
<1>7. \A b \in Blocks \cup {Null}, o \in Objects \cup {Null} : Uses(h, b, o)' <=> Uses(h, b, o)
    BY <1>4 DEF Uses, Main, Temp
<1>8. ASSUME NEW b \in Blocks
      PROVE  Weight(h, b)' = Weight(h, b)
    <2>1. pc[h] = "dead" => raw[h] = Null
        BY DEF Sound, Shape, ShapeOf
    <2> QED BY <1>4, <2>1, WeightIs, WeightWillBe
<1>9. \A b \in Blocks : Cardinality(Owners(b)') + Cardinality(Dropping(b)')
                        = Cardinality(Owners(b)) + Cardinality(Dropping(b))
    BY <1>3, <1>8, OneHandsOver
<1>10. /\ pc[h] \notin {"last", "reset sole", "reset shared"}
       /\ pc'[h] \notin {"last", "reset sole", "reset shared"}
    BY <1>4
<1> QED BY <1>2, <1>3, <1>4, <1>5, <1>6, <1>7, <1>9, <1>10, HandingOverKeeps

LEMMA MoveConstructKeeps ==
    ASSUME Sound, NEW h \in Handles, NEW g \in Handles, MoveConstruct(h, g)
    PROVE  Sound'
<1>1. /\ pc[h] = "dead" /\ pc[g] = "ready"
      /\ raw' = [[raw EXCEPT ![g] = Null] EXCEPT ![h] = raw[g]]
      /\ cb' = [[cb EXCEPT ![g] = Null] EXCEPT ![h] = cb[g]]
      /\ pc' = [pc EXCEPT ![h] = "ready"]
      /\ UNCHANGED <<tmp, src, then, block, object, fault, abused>>
      /\ \A k \in Handles : src[k] # h /\ src[k] # g
    BY DEF MoveConstruct, Stillborn, Mine, Idle, Emptied, heap
<1>2. TypeOK'
    BY <1>1 DEF Sound, TypeOK
<1>3. Still({h, g})
    BY <1>1 DEF Still, Sound, TypeOK
<1>4. /\ pc'[h] = "ready" /\ raw'[h] = raw[g] /\ cb'[h] = cb[g]
      /\ pc'[g] = "ready" /\ raw'[g] = Null /\ cb'[g] = Null
      /\ tmp' = tmp /\ src' = src /\ then' = then
      /\ block' = block /\ object' = object /\ fault' = "none" /\ h # g
    BY <1>1 DEF Sound, TypeOK
<1>5. raw[h] = Null /\ cb[h] = Null
    BY <1>1 DEF Sound, Shape, ShapeOf
<1>6. ShapeOf(h)' /\ ShapeOf(g)'
    <2>1. ShapeOf(g)
        BY DEF Sound, Shape
    <2> QED BY <1>4, <2>1 DEF ShapeOf
<1>7. Sources'
    <2>1. src[h] = Null /\ src[g] = Null
        BY <1>1 DEF Sound, Sources
    <2> QED BY <1>1, <1>3, <1>4, <2>1, SourcesStay DEF Sound
<1>8. \A b \in Blocks \cup {Null}, o \in Objects \cup {Null} :
         (b # Null \/ o # Null) => /\ Uses(h, b, o)' <=> Uses(g, b, o)
                                   /\ ~Uses(g, b, o)' /\ ~Uses(h, b, o)
    BY <1>1, <1>4, <1>5 DEF Uses, Main, Temp
<1>9. ASSUME NEW b \in Blocks
      PROVE  Weight(h, b)' + Weight(g, b)' = Weight(h, b) + Weight(g, b)
    <2>1. Weight(h, b)' = Weight(g, b)
        BY <1>1, <1>4, WeightIs, WeightWillBe
    <2>2. Weight(h, b) = 0
        BY <1>1, WeightIs
    <2>3. Weight(g, b)' = 0
        BY <1>4, WeightWillBe
    <2> QED BY <2>1, <2>2, <2>3, WeightType
<1>10. \A b \in Blocks : Cardinality(Owners(b)') + Cardinality(Dropping(b)')
                         = Cardinality(Owners(b)) + Cardinality(Dropping(b))
    BY <1>3, <1>4, <1>9, TwoHandOver
<1> QED BY <1>1, <1>2, <1>3, <1>4, <1>6, <1>7, <1>8, <1>10, NullAssumption, HandingOverKeeps

LEMMA SwapKeeps ==
    ASSUME Sound, NEW h \in Handles, NEW g \in Handles, Swap(h, g)
    PROVE  Sound'
<1>1. /\ pc[h] = "ready" /\ pc[g] = "ready"
      /\ raw' = [raw EXCEPT ![h] = raw[g], ![g] = raw[h]]
      /\ cb' = [cb EXCEPT ![h] = cb[g], ![g] = cb[h]]
      /\ UNCHANGED <<pc, tmp, src, then, block, object, fault, abused>>
      /\ \A k \in Handles : src[k] # h /\ src[k] # g
    BY DEF Swap, Mine, Idle, heap
<1>2. TypeOK'
    BY <1>1 DEF Sound, TypeOK
<1>3. Still({h, g})
    BY <1>1 DEF Still, Sound, TypeOK
<1>4. /\ pc' = pc /\ raw'[h] = raw[g] /\ cb'[h] = cb[g] /\ raw'[g] = raw[h] /\ cb'[g] = cb[h]
      /\ tmp' = tmp /\ src' = src /\ then' = then
      /\ block' = block /\ object' = object /\ fault' = "none"
    BY <1>1 DEF Sound, TypeOK
<1>5. ShapeOf(h)' /\ ShapeOf(g)'
    <2>1. ShapeOf(h) /\ ShapeOf(g)
        BY DEF Sound, Shape
    <2> QED BY <1>1, <1>4, <2>1 DEF ShapeOf
<1>6. Sources'
    <2>1. src[h] = Null /\ src[g] = Null
        BY <1>1 DEF Sound, Sources
    <2> QED BY <1>1, <1>3, <1>4, <2>1, SourcesStay DEF Sound
<1>7. \A b \in Blocks \cup {Null}, o \in Objects \cup {Null} :
         /\ Uses(h, b, o)' <=> Uses(g, b, o)
         /\ Uses(g, b, o)' <=> Uses(h, b, o)
    BY <1>1, <1>4 DEF Uses, Main, Temp
<1>8. ASSUME NEW b \in Blocks
      PROVE  Weight(h, b)' = Weight(g, b) /\ Weight(g, b)' = Weight(h, b)
    <2>1. pc'[h] = pc[h] /\ pc'[g] = pc[g] /\ pc[h] = "ready" /\ pc[g] = "ready"
        BY <1>1
    <2>2. Weight(h, b)' = Weight(g, b)
        BY <1>4, <2>1, WeightIs, WeightWillBe
    <2>3. Weight(g, b)' = Weight(h, b)
        BY <1>4, <2>1, WeightIs, WeightWillBe
    <2> QED BY <2>2, <2>3
<1>9. ASSUME NEW b \in Blocks
      PROVE  Cardinality(Owners(b)') + Cardinality(Dropping(b)')
             = Cardinality(Owners(b)) + Cardinality(Dropping(b))
    <2>1. CASE h = g
        <3>1. Still({h})
            BY <1>3, <2>1 DEF Still
        <3> QED BY <1>8, <2>1, <3>1, OneHandsOver
    <2>2. CASE h # g
        <3>1. Weight(h, b)' + Weight(g, b)' = Weight(h, b) + Weight(g, b)
            BY <1>8, WeightType
        <3> QED BY <1>3, <2>2, <3>1, TwoHandOver
    <2> QED BY <2>1, <2>2
<1> QED BY <1>1, <1>2, <1>3, <1>4, <1>5, <1>6, <1>7, <1>9, HandingOverKeeps

LEMMA MoveAssignToSelfKeeps ==
    ASSUME Sound, NEW h \in Handles, MoveAssign(h, h)
    PROVE  Sound'
<1>1. /\ pc[h] = "ready"
      /\ raw' = [[raw EXCEPT ![h] = Null] EXCEPT ![h] = raw[h]]
      /\ cb' = [[cb EXCEPT ![h] = Null] EXCEPT ![h] = cb[h]]
      /\ tmp' = [tmp EXCEPT ![h] = NoPtr]
      /\ then' = [then EXCEPT ![h] = "ready"]
      /\ pc' = [pc EXCEPT ![h] = "release"]
      /\ UNCHANGED <<src, block, object, fault, abused>>
      /\ \A k \in Handles : src[k] # h
    BY DEF MoveAssign, Mine, Idle, Emptied, heap
<1>2. TypeOK'
    <2>1. NoPtr \in Pointers
        BY DEF NoPtr, Pointers
    <2> QED BY <1>1, <2>1 DEF Sound, TypeOK
<1>3. Still({h})
    BY <1>1 DEF Still, Sound, TypeOK
<1>4. /\ pc'[h] = "release" /\ raw'[h] = raw[h] /\ cb'[h] = cb[h] /\ tmp'[h] = NoPtr
      /\ then'[h] = "ready" /\ src' = src
      /\ block' = block /\ object' = object /\ fault' = "none"
    BY <1>1 DEF Sound, TypeOK
<1>5. ShapeOf(h)'
    <2>1. ShapeOf(h)
        BY DEF Sound, Shape
    <2> QED BY <1>4, <2>1 DEF ShapeOf
<1>6. Sources'
    <2>1. src[h] = Null
        BY <1>1 DEF Sound, Sources
    <2> QED BY <1>1, <1>3, <1>4, <2>1, SourcesStay DEF Sound
<1>7. \A b \in Blocks \cup {Null}, o \in Objects \cup {Null} : Uses(h, b, o)' <=> Uses(h, b, o)
    <2>1. tmp'[h].raw = Null
        BY <1>4 DEF NoPtr
    <2> QED BY <1>1, <1>4, <2>1 DEF Uses, Main, Temp
<1>8. ASSUME NEW b \in Blocks
      PROVE  Weight(h, b)' = Weight(h, b)
    <2>1. tmp'[h].raw = Null
        BY <1>4 DEF NoPtr
    <2> QED BY <1>1, <1>4, <2>1, WeightIs, WeightWillBe
<1>9. \A b \in Blocks : Cardinality(Owners(b)') + Cardinality(Dropping(b)')
                        = Cardinality(Owners(b)) + Cardinality(Dropping(b))
    BY <1>3, <1>8, OneHandsOver
<1> QED BY <1>1, <1>2, <1>3, <1>4, <1>5, <1>6, <1>7, <1>9, HandingOverKeeps

LEMMA MoveAssignKeeps ==
    ASSUME Sound, NEW h \in Handles, NEW g \in Handles, h # g, MoveAssign(h, g)
    PROVE  Sound'
<1>1. /\ pc[h] = "ready" /\ pc[g] = "ready"
      /\ raw' = [[raw EXCEPT ![g] = Null] EXCEPT ![h] = raw[g]]
      /\ cb' = [[cb EXCEPT ![g] = Null] EXCEPT ![h] = cb[g]]
      /\ tmp' = [tmp EXCEPT ![h] = Ptr(h)]
      /\ then' = [then EXCEPT ![h] = "ready"]
      /\ pc' = [pc EXCEPT ![h] = "release"]
      /\ UNCHANGED <<src, block, object, fault, abused>>
      /\ \A k \in Handles : src[k] # h /\ src[k] # g
    BY DEF MoveAssign, Mine, Idle, Emptied, heap
<1>2. TypeOK'
    <2>1. Ptr(h) \in Pointers
        BY DEF Ptr, Pointers, Sound, TypeOK
    <2> QED BY <1>1, <2>1 DEF Sound, TypeOK
<1>3. Still({h, g})
    BY <1>1 DEF Still, Sound, TypeOK
<1>4. /\ pc'[h] = "release" /\ raw'[h] = raw[g] /\ cb'[h] = cb[g]
      /\ tmp'[h].raw = raw[h] /\ tmp'[h].cb = cb[h] /\ then'[h] = "ready"
      /\ pc'[g] = "ready" /\ raw'[g] = Null /\ cb'[g] = Null
      /\ src' = src /\ block' = block /\ object' = object /\ fault' = "none"
    BY <1>1 DEF Ptr, Sound, TypeOK
<1>5. ShapeOf(h)' /\ ShapeOf(g)'
    <2>1. ShapeOf(g)
        BY DEF Sound, Shape
    <2> QED BY <1>4, <2>1 DEF ShapeOf
<1>6. Sources'
    <2>1. src[h] = Null /\ src[g] = Null
        BY <1>1 DEF Sound, Sources
    <2> QED BY <1>1, <1>3, <1>4, <2>1, SourcesStay DEF Sound
<1>7. \A b \in Blocks \cup {Null}, o \in Objects \cup {Null} :
         (b # Null \/ o # Null) =>
            /\ Uses(h, b, o)' => Uses(g, b, o) \/ Uses(h, b, o)
            /\ ~Uses(g, b, o)'
    BY <1>1, <1>4 DEF Uses, Main, Temp
<1>8. \A b \in Blocks, o \in Objects : Uses(g, b, o) \/ Uses(h, b, o) => Uses(h, b, o)'
    BY <1>1, <1>4, NullAssumption DEF Uses, Main, Temp
<1>9. ASSUME NEW b \in Blocks
      PROVE  Weight(h, b)' + Weight(g, b)' = Weight(h, b) + Weight(g, b)
    <2>1. Weight(g, b)' = 0
        BY <1>4, WeightWillBe
    <2>2. Weight(h, b) = IF cb[h] = b /\ raw[h] # Null THEN 1 ELSE 0
        BY <1>1, WeightIs
    <2>3. Weight(g, b) = IF cb[g] = b /\ raw[g] # Null THEN 1 ELSE 0
        BY <1>1, WeightIs
    <2>4. Weight(h, b)' = (IF cb[g] = b /\ raw[g] # Null THEN 1 ELSE 0)
                          + (IF cb[h] = b /\ raw[h] # Null THEN 1 ELSE 0)
        BY <1>4, WeightWillBe
    <2> QED BY <2>1, <2>2, <2>3, <2>4
<1>10. \A b \in Blocks : Cardinality(Owners(b)') + Cardinality(Dropping(b)')
                         = Cardinality(Owners(b)) + Cardinality(Dropping(b))
    BY <1>3, <1>9, TwoHandOver
<1> QED BY <1>1, <1>2, <1>3, <1>4, <1>5, <1>6, <1>7, <1>8, <1>10, HandingOverKeeps

-----------------------------------------------------------------------------
(* Release *)

LEMMA DestroyKeeps ==
    ASSUME Sound, NEW h \in Handles, Destroy(h)
    PROVE  Sound'
<1>1. /\ pc[h] = "ready" /\ raw' = [raw EXCEPT ![h] = Null] /\ cb' = [cb EXCEPT ![h] = Null]
      /\ tmp' = [tmp EXCEPT ![h] = Ptr(h)]
      /\ then' = [then EXCEPT ![h] = "dead"]
      /\ pc' = [pc EXCEPT ![h] = "release"]
      /\ UNCHANGED <<src, block, object, fault, abused>>
      /\ \A k \in Handles : src[k] # h
    BY DEF Destroy, Become, NoPtr, Mine, Idle, heap
<1>2. TypeOK'
    <2>1. Ptr(h) \in Pointers
        BY DEF Ptr, Pointers, Sound, TypeOK
    <2> QED BY <1>1, <2>1 DEF Sound, TypeOK
<1>3. Still({h})
    BY <1>1 DEF Still, Sound, TypeOK
<1>4. /\ pc'[h] = "release" /\ raw'[h] = Null /\ cb'[h] = Null
      /\ tmp'[h].raw = raw[h] /\ tmp'[h].cb = cb[h] /\ then'[h] = "dead" /\ src' = src
      /\ block' = block /\ object' = object /\ fault' = "none"
    BY <1>1 DEF Ptr, Sound, TypeOK
<1>5. ShapeOf(h)'
    BY <1>4 DEF ShapeOf
<1>6. Sources'
    <2>1. src[h] = Null
        BY <1>1 DEF Sound, Sources
    <2> QED BY <1>1, <1>3, <1>4, <2>1, SourcesStay DEF Sound
<1>7. \A b \in Blocks \cup {Null}, o \in Objects \cup {Null} :
         (b # Null \/ o # Null) /\ Uses(h, b, o)' => Uses(h, b, o)
    BY <1>1, <1>4 DEF Uses, Main, Temp
<1>8. \A b \in Blocks, o \in Objects : Uses(h, b, o) => Uses(h, b, o)'
    BY <1>1, <1>4, NullAssumption DEF Uses, Main, Temp
<1>9. \A b \in Blocks : Weight(h, b)' = Weight(h, b)
    BY <1>1, <1>4, WeightIs, WeightWillBe
<1>10. \A b \in Blocks : Cardinality(Owners(b)') + Cardinality(Dropping(b)')
                         = Cardinality(Owners(b)) + Cardinality(Dropping(b))
    BY <1>3, <1>9, OneHandsOver
<1> QED BY <1>1, <1>2, <1>3, <1>4, <1>5, <1>6, <1>7, <1>8, <1>10, HandingOverKeeps

\* What the end of a call leaves of a handle.
LEMMA Finished ==
    ASSUME Sound, NEW h \in Handles, pc[h] \in {"release", "last"}, Finish(h),
           raw' = raw, cb' = cb, src' = src
    PROVE  /\ Still({h}) /\ pc'[h] = then[h] /\ pc'[h] \in {"dead", "ready"}
           /\ tmp'[h] = NoPtr /\ raw'[h] = raw[h] /\ cb'[h] = cb[h]
           /\ pc'[h] = "dead" => raw[h] = Null /\ cb[h] = Null
           /\ \A k \in Handles : src[k] # h
           /\ src'[h] = Null
           /\ pc' \in [Handles -> {"dead", "ready", "copy", "assign", "release", "last",
                                   "reset sole", "reset shared"}]
           /\ then' \in [Handles -> {"dead", "ready"}] /\ tmp' \in [Handles -> Pointers]
<1>1. /\ pc' = [pc EXCEPT ![h] = then[h]] /\ then' = [then EXCEPT ![h] = "dead"]
      /\ tmp' = [tmp EXCEPT ![h] = NoPtr]
    BY DEF Finish
<1>2. NoPtr \in Pointers
    BY DEF NoPtr, Pointers
<1>3. Still({h})
    BY <1>1 DEF Still, Sound, TypeOK
<1>4. pc'[h] = then[h] /\ tmp'[h] = NoPtr /\ then[h] \in {"dead", "ready"}
    BY <1>1 DEF Sound, TypeOK
<1>5. then[h] = "dead" => raw[h] = Null /\ cb[h] = Null
    BY DEF Sound, Shape, ShapeOf
<1>6. src[h] = Null /\ \A k \in Handles : src[k] # h
    BY NullAssumption DEF Sound, Sources
<1>7. /\ pc' \in [Handles -> {"dead", "ready", "copy", "assign", "release", "last",
                              "reset sole", "reset shared"}]
      /\ then' \in [Handles -> {"dead", "ready"}] /\ tmp' \in [Handles -> Pointers]
    BY <1>1, <1>2, <1>4 DEF Sound, TypeOK
<1> QED BY <1>3, <1>4, <1>5, <1>6, <1>7

\* A temporary without an object.
LEMMA ReleaseNothingKeeps ==
    ASSUME Sound, NEW h \in Handles, Release(h), tmp[h].raw = Null
    PROVE  Sound'
<1>1. /\ pc[h] = "release" /\ Finish(h)
      /\ UNCHANGED <<raw, cb, src, block, object, fault, abused>>
    BY DEF Release
<1>2. /\ Still({h}) /\ pc'[h] \in {"dead", "ready"}
      /\ tmp'[h] = NoPtr /\ raw'[h] = raw[h] /\ cb'[h] = cb[h]
      /\ pc'[h] = "dead" => raw[h] = Null /\ cb[h] = Null
      /\ \A k \in Handles : src[k] # h
      /\ src'[h] = Null
    BY <1>1, Finished
<1>3. TypeOK'
    <2>1. /\ pc' \in [Handles -> {"dead", "ready", "copy", "assign", "release", "last",
                                  "reset sole", "reset shared"}]
          /\ then' \in [Handles -> {"dead", "ready"}] /\ tmp' \in [Handles -> Pointers]
        BY <1>1, Finished
    <2> QED BY <1>1, <2>1 DEF Sound, TypeOK
<1>4. ShapeOf(h)'
    <2>1. ShapeOf(h)
        BY DEF Sound, Shape
    <2> QED BY <1>1, <1>2, <2>1 DEF ShapeOf
<1>5. Sources'
    BY <1>1, <1>2, SourcesStay DEF Sound
<1>6. \A b \in Blocks \cup {Null}, o \in Objects \cup {Null} : Uses(h, b, o)' <=> Uses(h, b, o)
    BY <1>1, <1>2 DEF Uses, Main, Temp
<1>7. \A b \in Blocks : Weight(h, b)' = Weight(h, b)
    BY <1>1, <1>2, WeightIs, WeightWillBe
<1>8. \A b \in Blocks : Cardinality(Owners(b)') + Cardinality(Dropping(b)')
                        = Cardinality(Owners(b)) + Cardinality(Dropping(b))
    BY <1>2, <1>7, OneHandsOver
<1>9. block' = block /\ object' = object /\ fault' = "none"
    BY <1>1 DEF Sound
<1> QED BY <1>1, <1>2, <1>3, <1>4, <1>5, <1>6, <1>8, <1>9, HandingOverKeeps

\* Only the count of block b changes.
LEMMA CountStep ==
    ASSUME TypeOK, NEW b \in Blocks, NEW n \in 0..(CountMod - 1),
           block' = [block EXCEPT ![b].count = n]
    PROVE  /\ block' \in [Blocks -> ControlBlocks]
           /\ \A c \in Blocks : Alike(c)
           /\ block'[b].count = n
           /\ \A c \in Blocks \ {b} : block'[c].count = block[c].count
<1>1. block \in [Blocks -> ControlBlocks]
    BY DEF TypeOK
<1>2. [block[b] EXCEPT !.count = n] \in ControlBlocks
    BY <1>1 DEF ControlBlocks
<1>3. block' \in [Blocks -> ControlBlocks]
    BY <1>1, <1>2
<1>4. block'[b] = [block[b] EXCEPT !.count = n] /\ \A c \in Blocks \ {b} : block'[c] = block[c]
    BY <1>1
<1>5. /\ block'[b].count = n /\ block'[b].state = block[b].state
      /\ block'[b].deleter = block[b].deleter /\ block'[b].m_object = block[b].m_object
      /\ block'[b].managed = block[b].managed
    BY <1>1, <1>4 DEF ControlBlocks
<1>6. \A c \in Blocks : Alike(c)
    BY <1>4, <1>5 DEF Alike
<1> QED BY <1>3, <1>4, <1>5, <1>6

LEMMA NobodyElse ==
    ASSUME NEW h \in Handles, NEW b \in Blocks,
           Cardinality(Owners(b)) + Cardinality(Dropping(b)) = Weight(h, b)
    PROVE  \A k \in Handles \ {h} : k \notin Owners(b) /\ k \notin Dropping(b)
<1>1. /\ IsFiniteSet(Owners(b) \ {h}) /\ Cardinality(Owners(b) \ {h}) \in Nat
      /\ Cardinality(Owners(b)) = Cardinality(Owners(b) \ {h}) + In(Owners(b), h)
    BY Counted, Without
<1>2. /\ IsFiniteSet(Dropping(b) \ {h}) /\ Cardinality(Dropping(b) \ {h}) \in Nat
      /\ Cardinality(Dropping(b)) = Cardinality(Dropping(b) \ {h}) + In(Dropping(b), h)
    BY Counted, Without
<1>3. In(Owners(b), h) \in Nat /\ In(Dropping(b), h) \in Nat
    BY DEF In
<1>4. Cardinality(Owners(b) \ {h}) = 0 /\ Cardinality(Dropping(b) \ {h}) = 0
    BY <1>1, <1>2, <1>3 DEF Weight
<1>5. Owners(b) \ {h} = {} /\ Dropping(b) \ {h} = {}
    BY <1>1, <1>2, <1>4, FS_EmptySet
<1> QED BY <1>5

LEMMA SomebodyElse ==
    ASSUME NEW h \in Handles, NEW b \in Blocks,
           Cardinality(Owners(b)) + Cardinality(Dropping(b)) # Weight(h, b)
    PROVE  \E k \in Handles \ {h} : k \in Owners(b) \/ k \in Dropping(b)
<1> SUFFICES ASSUME \A k \in Handles \ {h} : k \notin Owners(b) /\ k \notin Dropping(b)
             PROVE  FALSE
    OBVIOUS
<1>1. Owners(b) \ {h} = {} /\ Dropping(b) \ {h} = {}
    BY DEF Owners, Dropping
<1>2. Cardinality(Owners(b) \ {h}) = 0 /\ Cardinality(Dropping(b) \ {h}) = 0
    BY <1>1, FS_EmptySet
<1>3. /\ Cardinality(Owners(b)) = Cardinality(Owners(b) \ {h}) + In(Owners(b), h)
      /\ Cardinality(Dropping(b)) = Cardinality(Dropping(b) \ {h}) + In(Dropping(b), h)
    BY Counted, Without
<1>4. In(Owners(b), h) \in Nat /\ In(Dropping(b), h) \in Nat
    BY DEF In
<1> QED BY <1>2, <1>3, <1>4 DEF Weight

\* Who counts for a block uses its object.
LEMMA CountedUses ==
    ASSUME Sound, NEW k \in Handles, NEW b \in Blocks, k \in Owners(b) \/ k \in Dropping(b)
    PROVE  \E p \in Objects : Uses(k, b, p)
<1>1. raw[k] \in Objects \cup {Null} /\ tmp[k].raw \in Objects \cup {Null}
    BY DEF Sound, TypeOK, Pointers
<1>2. CASE k \in Owners(b)
    <2>1. Uses(k, b, raw[k]) /\ raw[k] # Null
        BY <1>2 DEF Owners, Uses, Main
    <2> QED BY <1>1, <2>1
<1>3. CASE k \in Dropping(b)
    <2>1. Uses(k, b, tmp[k].raw) /\ tmp[k].raw # Null
        BY <1>3 DEF Dropping, Uses, Temp
    <2> QED BY <1>1, <2>1
<1> QED BY <1>2, <1>3

\* When nobody else counts for the block of an object, nobody else has it.
LEMMA AloneWith ==
    ASSUME Sound, NEW h \in Handles, NEW b \in Blocks, NEW o \in Objects, Uses(h, b, o),
           \A k \in Handles \ {h} : k \notin Owners(b) /\ k \notin Dropping(b)
    PROVE  \A k \in Handles \ {h}, p \in Objects \cup {Null} : ~Uses(k, b, p)
<1> SUFFICES ASSUME NEW k \in Handles \ {h}, NEW p \in Objects \cup {Null}, Uses(k, b, p)
             PROVE  FALSE
    OBVIOUS
<1>1. Used(b, o) /\ Used(b, p)
    BY DEF Used
<1>2. p # Null
    BY <1>1 DEF Sound, Agree
<1>3. ~Claim(k, b)
    BY DEF Sound, Claims
<1>4. CASE Main(k, b, p)
    <2>1. cb[k] = b /\ raw[k] # Null /\ pc[k] # "reset shared"
        BY <1>2, <1>4 DEF Main
    <2>2. pc[k] # "reset sole"
        BY <1>3, <2>1 DEF Claim
    <2>3. pc[k] # "dead"
        BY <2>1 DEF Sound, Shape, ShapeOf
    <2>4. pc[k] \in {"ready", "copy", "assign", "release", "last"}
        BY <2>1, <2>2, <2>3 DEF Sound, TypeOK
    <2> QED BY <2>1, <2>4 DEF Owners
<1>5. CASE Temp(k, b, p)
    <2>1. pc[k] \in {"release", "last"} /\ tmp[k].cb = b /\ tmp[k].raw # Null
        BY <1>2, <1>5 DEF Temp
    <2>2. pc[k] # "last"
        BY <1>3, <2>1 DEF Claim
    <2> QED BY <2>1, <2>2 DEF Dropping
<1> QED BY <1>4, <1>5 DEF Uses

\* The decrement of a release finds a live block with an exact count of at least one.
LEMMA ReleaseFinds ==
    ASSUME Sound, NEW h \in Handles, Release(h), NEW b \in Blocks \cup {Null}, b = tmp[h].cb,
           NEW o \in Objects, o = tmp[h].raw
    PROVE  /\ pc[h] = "release" /\ Uses(h, b, o) /\ b \in Blocks
           /\ block[b].state = "live" /\ block[b].managed
           /\ block[b].count \in 0..(CountMod - 1)
           /\ block[b].count = Cardinality(Owners(b)) + Cardinality(Dropping(b))
           /\ Weight(h, b) = 1 + In(Owners(b), h) /\ block[b].count > 0
           /\ block' = [block EXCEPT ![b].count = block[b].count - 1]
           /\ IF block[b].count - 1 = 0
              THEN pc' = [pc EXCEPT ![h] = "last"] /\ UNCHANGED <<then, tmp>>
              ELSE Finish(h)
           /\ UNCHANGED <<raw, cb, src, object, fault, abused>>
<1>1. pc[h] = "release" /\ o # Null
    BY NullAssumption DEF Release
<1>2. Uses(h, b, o)
    BY <1>1 DEF Uses, Temp
<1>3. Used(b, o)
    BY <1>2 DEF Used
<1>4. b \in Blocks
    BY <1>3 DEF Sound, Agree
<1>5. block[b].state = "live" /\ block[b].managed
    BY <1>3, <1>4 DEF Sound, Agree
<1>6. block[b].count = Cardinality(Owners(b)) + Cardinality(Dropping(b))
    BY <1>4, <1>5 DEF Sound, Exact
<1>7. block[b].count \in 0..(CountMod - 1)
    BY <1>4 DEF Sound, TypeOK, ControlBlocks
<1>8. h \in Dropping(b)
    BY <1>1 DEF Dropping
<1>9. Weight(h, b) = 1 + In(Owners(b), h)
    BY <1>8 DEF Weight, In
<1>10. Cardinality(Dropping(b)) # 0
    BY <1>8, Counted, FS_EmptySet
<1>11. block[b].count > 0
    BY <1>6, <1>10, Counted
<1>12. Decremented(block[b].count) = block[b].count - 1
    BY <1>7, <1>11, Arithmetic
<1>13. /\ block' = [block EXCEPT ![b].count = Decremented(@)]
       /\ IF Decremented(block[b].count) = 0
          THEN pc' = [pc EXCEPT ![h] = "last"] /\ UNCHANGED <<then, tmp>>
          ELSE Finish(h)
       /\ UNCHANGED <<raw, cb, src, object, fault, abused>>
    BY <1>1, <1>5 DEF Release
<1>14. block' = [block EXCEPT ![b].count = block[b].count - 1]
    BY <1>4, <1>12, <1>13
<1>15. IF block[b].count - 1 = 0
       THEN pc' = [pc EXCEPT ![h] = "last"] /\ UNCHANGED <<then, tmp>>
       ELSE Finish(h)
    BY <1>12, <1>13
<1> QED BY <1>1, <1>2, <1>4, <1>5, <1>6, <1>7, <1>9, <1>11, <1>13, <1>14, <1>15

\* Others are left.
LEMMA ReleaseSharedKeeps ==
    ASSUME Sound, NEW h \in Handles, Release(h), NEW b \in Blocks, b = tmp[h].cb,
           NEW o \in Objects, o = tmp[h].raw, block[b].count # 1
    PROVE  Sound'
<1>1. /\ pc[h] = "release" /\ Uses(h, b, o)
      /\ block[b].state = "live" /\ block[b].managed
      /\ block[b].count \in 0..(CountMod - 1)
      /\ block[b].count = Cardinality(Owners(b)) + Cardinality(Dropping(b))
      /\ Weight(h, b) = 1 + In(Owners(b), h) /\ block[b].count > 0
      /\ block' = [block EXCEPT ![b].count = block[b].count - 1]
      /\ Finish(h)
      /\ UNCHANGED <<raw, cb, src, object, fault, abused>>
    <2>1. b \in Blocks \cup {Null}
        OBVIOUS
    <2>2. /\ pc[h] = "release" /\ Uses(h, b, o)
          /\ block[b].state = "live" /\ block[b].managed
          /\ block[b].count \in 0..(CountMod - 1)
          /\ block[b].count = Cardinality(Owners(b)) + Cardinality(Dropping(b))
          /\ Weight(h, b) = 1 + In(Owners(b), h) /\ block[b].count > 0
          /\ block' = [block EXCEPT ![b].count = block[b].count - 1]
          /\ UNCHANGED <<raw, cb, src, object, fault, abused>>
        BY <2>1, ReleaseFinds
    <2>3. IF block[b].count - 1 = 0
          THEN pc' = [pc EXCEPT ![h] = "last"] /\ UNCHANGED <<then, tmp>>
          ELSE Finish(h)
        BY <2>1, ReleaseFinds
    <2>4. block[b].count - 1 # 0
        BY <2>2, Arithmetic
    <2>5. Finish(h)
        BY <2>3, <2>4
    <2> QED BY <2>2, <2>5
<1>2. /\ Still({h}) /\ pc'[h] \in {"dead", "ready"}
      /\ tmp'[h] = NoPtr /\ raw'[h] = raw[h] /\ cb'[h] = cb[h]
      /\ pc'[h] = "dead" => raw[h] = Null /\ cb[h] = Null
      /\ \A k \in Handles : src[k] # h
      /\ src'[h] = Null
    BY <1>1, Finished
<1>3. block[b].count - 1 \in 0..(CountMod - 1)
    BY <1>1, Arithmetic
<1>4. /\ block' \in [Blocks -> ControlBlocks] /\ \A c \in Blocks : Alike(c)
      /\ block'[b].count = block[b].count - 1
      /\ \A c \in Blocks \ {b} : block'[c].count = block[c].count
    BY <1>1, <1>3, CountStep DEF Sound
<1>5. TypeOK'
    <2>1. /\ pc' \in [Handles -> {"dead", "ready", "copy", "assign", "release", "last",
                                  "reset sole", "reset shared"}]
          /\ then' \in [Handles -> {"dead", "ready"}] /\ tmp' \in [Handles -> Pointers]
        BY <1>1, Finished
    <2> QED BY <1>1, <1>4, <2>1 DEF Sound, TypeOK
<1>6. Shape'
    <2>1. ShapeOf(h)
        BY DEF Sound, Shape
    <2>2. cb[h] # Null => cb[h] \in Blocks
        BY DEF Sound, TypeOK
    <2>3. ShapeOf(h)'
        BY <1>2, <1>4, <2>1, <2>2 DEF ShapeOf, Alike
    <2>4. \A c \in Blocks : /\ block[c].state # "free" => block'[c].state # "free"
                            /\ block[c].managed => block'[c].managed
        BY <1>4 DEF Alike
    <2> QED BY <1>2, <2>3, <2>4, ShapeStays DEF Sound
<1>7. Sources'
    BY <1>2, SourcesStay DEF Sound
<1>8. \A c \in Blocks \cup {Null}, p \in Objects \cup {Null} :
          Uses(h, c, p)' => Uses(h, c, p)
    BY <1>1, <1>2 DEF Uses, Main, Temp, NoPtr
<1>9. \A k \in Handles, p \in Objects : Pending(k, p)' <=> Pending(k, p)
    <2>1. \A p \in Objects : ~Pending(h, p)' /\ ~Pending(h, p)
        BY <1>1, <1>2 DEF Pending
    <2> QED BY <1>2, <2>1, StillUses
<1>10. FewerUses
    <2>1. ASSUME NEW k \in Handles, NEW c \in Blocks \cup {Null}, NEW p \in Objects \cup {Null},
                 Uses(k, c, p)'
          PROVE  Uses(k, c, p)
        BY <1>2, <1>8, <2>1, StillUses
    <2> QED BY <2>1 DEF FewerUses
<1>11. Agree'
    BY <1>1, <1>4, <1>10, AgreeStays DEF Sound
<1>12. ASSUME NEW k \in Handles, pc'[k] \in {"last", "reset sole"}
       PROVE  k # h /\ pc'[k] = pc[k] /\ cb'[k] = cb[k] /\ tmp'[k] = tmp[k]
    BY <1>2, <1>12 DEF Still
<1>13. Resets'
    <2>1. ASSUME NEW k \in Handles, pc'[k] = "reset sole"
          PROVE  /\ pc[k] = "reset sole" /\ cb'[k] = cb[k] /\ cb[k] \in Blocks
                 /\ tmp'[k] = tmp[k]
        BY <1>12, <2>1 DEF Sound, Shape, ShapeOf, TypeOK
    <2> QED BY <1>1, <1>4, <1>9, <1>10, <2>1, ResetsStay DEF Sound
<1>14. Claims'
    <2>1. ASSUME NEW k \in Handles, NEW c \in Blocks, Claim(k, c)'
          PROVE  /\ Claim(k, c) /\ pc[k] \in {"last", "reset sole"}
                 /\ pc'[k] = "last" => pc[k] = "last" /\ cb'[k] = cb[k]
        <3>1. pc'[k] \in {"last", "reset sole"}
            BY <2>1 DEF Claim
        <3>2. k # h /\ pc[k] = pc'[k] /\ cb'[k] = cb[k]
            BY <1>12, <3>1
        <3>3. Claim(k, c)
            BY <1>2, <2>1, <3>2, StillUses
        <3> QED BY <3>1, <3>2, <3>3
    <2> QED BY <1>10, <2>1, ClaimsStay DEF Sound
<1>15. Exact'
    <2>1. tmp'[h].raw = Null
        BY <1>2 DEF NoPtr
    <2>2. ASSUME NEW c \in Blocks
          PROVE  Weight(h, c)' = (IF c = b THEN Weight(h, c) - 1 ELSE Weight(h, c))
        <3>1. Weight(h, c)' = IF cb[h] = c /\ raw[h] # Null THEN 1 ELSE 0
            BY <1>2, <2>1, WeightWillBe
        <3>2. Weight(h, c) = (IF cb[h] = c /\ raw[h] # Null THEN 1 ELSE 0)
                             + (IF c = b THEN 1 ELSE 0)
            BY <1>1, NullAssumption, WeightIs
        <3> QED BY <3>1, <3>2
    <2>3. ASSUME NEW c \in Blocks, block'[c].state = "live", block'[c].managed
          PROVE  block'[c].count = Cardinality(Owners(c)') + Cardinality(Dropping(c)')
        <3>1. block[c].count = Cardinality(Owners(c)) + Cardinality(Dropping(c))
            BY <1>4, <2>3 DEF Alike, Sound, Exact
        <3>2. Cardinality(Owners(c)') + Cardinality(Dropping(c)') - Weight(h, c)'
              = Cardinality(Owners(c)) + Cardinality(Dropping(c)) - Weight(h, c)
            BY <1>2, SumOfOne
        <3> QED BY <1>4, <2>2, <3>1, <3>2, Counted, CountedNext, WeightType
    <2> QED BY <2>3 DEF Exact
<1>16. Kept'
    <2>1. ASSUME NEW c \in Blocks, NEW p \in Objects, Used(c, p)
          PROVE  Used(c, p)'
        <3>1. PICK k \in Handles : Uses(k, c, p)
            BY <2>1 DEF Used
        <3>2. CASE k # h
            BY <1>2, <3>1, <3>2, StillUses DEF Used
        <3>3. CASE k = h /\ Main(h, c, p)
            BY <1>1, <1>2, <3>3 DEF Used, Uses, Main
        <3>4. CASE k = h /\ Temp(h, c, p)
            <4>1. c = b /\ p = o
                BY <3>4 DEF Temp
            <4>2. CASE h \in Owners(b)
                <5>1. Used(b, raw[h]) /\ raw[h] \in Objects
                    BY <4>2 DEF Owners, Used, Uses, Main, Sound, TypeOK
                <5>2. Used(b, o)
                    BY <1>1 DEF Used
                <5>3. raw[h] = o
                    BY <5>1, <5>2 DEF Sound, Agree
                <5>4. Uses(h, b, o)'
                    BY <1>2, <4>2, <5>3 DEF Owners, Uses, Main
                <5> QED BY <4>1, <5>4 DEF Used
            <4>3. CASE h \notin Owners(b)
                <5>1. Weight(h, b) = 1
                    BY <1>1, <4>3 DEF In
                <5>2. PICK i \in Handles \ {h} : i \in Owners(b) \/ i \in Dropping(b)
                    BY <1>1, <5>1, SomebodyElse
                <5>3. PICK q \in Objects : Uses(i, b, q)
                    BY <5>2, CountedUses
                <5>4. q = o
                    BY <1>1, <5>3 DEF Used, Sound, Agree
                <5>5. Uses(i, b, o)'
                    BY <1>2, <5>2, <5>3, <5>4, StillUses
                <5> QED BY <4>1, <5>5 DEF Used
            <4> QED BY <4>2, <4>3
        <3> QED BY <3>1, <3>2, <3>3, <3>4 DEF Uses
    <2>2. \A c \in Blocks : block'[c].state = "live" /\ block'[c].managed =>
                                block[c].state = "live" /\ block[c].managed
        BY <1>4 DEF Alike
    <2> QED BY <1>1, <1>9, <2>1, <2>2, KeptStays DEF Sound
<1> QED BY <1>1, <1>5, <1>6, <1>7, <1>11, <1>13, <1>14, <1>15, <1>16 DEF Sound

\* Nobody else is left: the handle claims the block.
LEMMA ReleaseLastKeeps ==
    ASSUME Sound, NEW h \in Handles, Release(h), NEW b \in Blocks, b = tmp[h].cb,
           NEW o \in Objects, o = tmp[h].raw, block[b].count = 1
    PROVE  Sound'
<1>1. /\ pc[h] = "release" /\ Uses(h, b, o)
      /\ block[b].state = "live" /\ block[b].managed
      /\ 1 = Cardinality(Owners(b)) + Cardinality(Dropping(b))
      /\ Weight(h, b) = 1 + In(Owners(b), h)
      /\ block' = [block EXCEPT ![b].count = 0]
      /\ pc' = [pc EXCEPT ![h] = "last"]
      /\ UNCHANGED <<then, tmp, raw, cb, src, object, fault, abused>>
    <2>1. b \in Blocks \cup {Null}
        OBVIOUS
    <2>2. /\ pc[h] = "release" /\ Uses(h, b, o)
          /\ block[b].state = "live" /\ block[b].managed
          /\ block[b].count = Cardinality(Owners(b)) + Cardinality(Dropping(b))
          /\ Weight(h, b) = 1 + In(Owners(b), h)
          /\ block' = [block EXCEPT ![b].count = block[b].count - 1]
          /\ UNCHANGED <<raw, cb, src, object, fault, abused>>
        BY <2>1, ReleaseFinds
    <2>3. IF block[b].count - 1 = 0
          THEN pc' = [pc EXCEPT ![h] = "last"] /\ UNCHANGED <<then, tmp>>
          ELSE Finish(h)
        BY <2>1, ReleaseFinds
    <2>4. block[b].count - 1 = 0
        OBVIOUS
    <2>5. pc' = [pc EXCEPT ![h] = "last"] /\ UNCHANGED <<then, tmp>>
        BY <2>3, <2>4
    <2>6. block' = [block EXCEPT ![b].count = 0]
        BY <2>2, <2>4
    <2> QED BY <2>2, <2>5, <2>6
<1>2. /\ Still({h}) /\ pc'[h] = "last"
      /\ pc' \in [Handles -> {"dead", "ready", "copy", "assign", "release", "last",
                              "reset sole", "reset shared"}]
    BY <1>1 DEF Still, Sound, TypeOK
<1>3. 0 \in 0..(CountMod - 1)
    BY MoreThanOne
<1>4. /\ block' \in [Blocks -> ControlBlocks] /\ \A c \in Blocks : Alike(c)
      /\ block'[b].count = 0
      /\ \A c \in Blocks \ {b} : block'[c].count = block[c].count
    BY <1>1, <1>3, CountStep DEF Sound
<1>5. TypeOK'
    BY <1>1, <1>2, <1>4 DEF Sound, TypeOK
<1>6. h \notin Owners(b) /\ Weight(h, b) = 1
    <2>1. Cardinality(Owners(b)) + Cardinality(Dropping(b)) - In(Owners(b), h) - In(Dropping(b), h) >= 0
        <3>1. /\ Cardinality(Owners(b) \ {h}) \in Nat
              /\ Cardinality(Owners(b)) = Cardinality(Owners(b) \ {h}) + In(Owners(b), h)
            BY Counted, Without
        <3>2. /\ Cardinality(Dropping(b) \ {h}) \in Nat
              /\ Cardinality(Dropping(b)) = Cardinality(Dropping(b) \ {h}) + In(Dropping(b), h)
            BY Counted, Without
        <3>3. In(Owners(b), h) \in Nat /\ In(Dropping(b), h) \in Nat
            BY DEF In
        <3> QED BY <3>1, <3>2, <3>3
    <2>2. Weight(h, b) = In(Owners(b), h) + In(Dropping(b), h)
        BY DEF Weight
    <2>3. In(Owners(b), h) \in {0, 1} /\ In(Dropping(b), h) \in {0, 1}
        BY DEF In
    <2>4. In(Owners(b), h) = 0
        BY <1>1, <2>1, <2>2, <2>3, Counted
    <2> QED BY <1>1, <2>4 DEF In
<1>7. \A k \in Handles \ {h} : k \notin Owners(b) /\ k \notin Dropping(b)
    BY <1>1, <1>6, NobodyElse
<1>8. \A k \in Handles \ {h}, p \in Objects \cup {Null} : ~Uses(k, b, p)
    BY <1>1, <1>7, AloneWith
<1>9. cb[h] # b
    <2>1. cb[h] = b /\ raw[h] = Null => Used(b, Null)
        BY <1>1 DEF Used, Uses, Main
    <2>2. ~Used(b, Null)
        BY <1>1 DEF Sound, Agree
    <2> QED BY <1>1, <1>6, <2>1, <2>2 DEF Owners
<1>10. Shape'
    <2>1. ShapeOf(h)
        BY DEF Sound, Shape
    <2>2. cb[h] # Null => cb[h] \in Blocks
        BY DEF Sound, TypeOK
    <2>3. tmp[h].raw # Null
        BY NullAssumption
    <2>4. ShapeOf(h)'
        BY <1>1, <1>2, <1>4, <2>1, <2>2, <2>3 DEF ShapeOf, Alike
    <2>5. \A c \in Blocks : /\ block[c].state # "free" => block'[c].state # "free"
                            /\ block[c].managed => block'[c].managed
        BY <1>4 DEF Alike
    <2> QED BY <1>2, <2>4, <2>5, ShapeStays DEF Sound
<1>11. Sources'
    <2>1. src[h] = Null /\ \A k \in Handles : src[k] # h
        BY <1>1, NullAssumption DEF Sound, Sources
    <2> QED BY <1>1, <1>2, <2>1, SourcesStay DEF Sound
<1>12. ASSUME NEW k \in Handles, NEW c \in Blocks \cup {Null}, NEW p \in Objects \cup {Null}
       PROVE  Uses(k, c, p)' <=> Uses(k, c, p)
    <2>1. CASE k = h
        BY <1>1, <1>2, <2>1 DEF Uses, Main, Temp
    <2>2. CASE k # h
        BY <1>2, <2>2, OtherUses
    <2> QED BY <2>1, <2>2
<1>13. \A k \in Handles, p \in Objects : Pending(k, p)' <=> Pending(k, p)
    <2>1. \A p \in Objects : ~Pending(h, p)' /\ ~Pending(h, p)
        BY <1>1, <1>2 DEF Pending
    <2> QED BY <1>2, <2>1, OtherUses
<1>14. FewerUses
    BY <1>12 DEF FewerUses
<1>15. Agree'
    BY <1>1, <1>4, <1>14, AgreeStays DEF Sound
<1>16. Resets'
    <2>1. ASSUME NEW k \in Handles, pc'[k] = "reset sole"
          PROVE  /\ pc[k] = "reset sole" /\ cb'[k] = cb[k] /\ cb[k] \in Blocks
                 /\ tmp'[k] = tmp[k]
        <3>1. k # h
            BY <1>2, <2>1
        <3>2. pc[k] = "reset sole" /\ cb'[k] = cb[k] /\ tmp'[k] = tmp[k]
            BY <1>2, <2>1, <3>1 DEF Still
        <3> QED BY <3>2 DEF Sound, Shape, ShapeOf, TypeOK
    <2> QED BY <1>1, <1>4, <1>13, <1>14, <2>1, ResetsStay DEF Sound
<1>17. Claims'
    <2>1. ASSUME NEW k \in Handles, NEW c \in Blocks, Claim(k, c)'
          PROVE  /\ \A g \in Handles \ {k}, p \in Objects \cup {Null} : ~Uses(g, c, p)'
                 /\ pc'[k] = "last" => cb'[k] # c
        <3>1. CASE k = h
            <4>1. c = b
                BY <1>1, <1>2, <2>1, <3>1 DEF Claim
            <4>2. \A g \in Handles \ {k}, p \in Objects \cup {Null} : ~Uses(g, c, p)
                BY <1>8, <3>1, <4>1
            <4>3. cb'[k] # c
                BY <1>1, <1>9, <3>1, <4>1
            <4> QED BY <1>12, <4>2, <4>3
        <3>2. CASE k # h
            <4>1. pc'[k] = pc[k] /\ cb'[k] = cb[k]
                BY <1>2, <3>2 DEF Still
            <4>2. Claim(k, c)
                BY <1>2, <2>1, <3>2, OtherUses
            <4> QED BY <1>12, <4>1, <4>2 DEF Sound, Claims
        <3> QED BY <3>1, <3>2
    <2> QED BY <2>1 DEF Claims
<1>18. Exact'
    <2>1. ASSUME NEW c \in Blocks
          PROVE  Weight(h, c)' = (IF c = b THEN 0 ELSE Weight(h, c))
        <3>1. Weight(h, c)' = IF cb[h] = c /\ raw[h] # Null THEN 1 ELSE 0
            <4>1. pc'[h] = "last" /\ raw'[h] = raw[h] /\ cb'[h] = cb[h]
                BY <1>1, <1>2
            <4> QED BY <4>1, WeightWillBe
        <3>2. Weight(h, c) = (IF cb[h] = c /\ raw[h] # Null THEN 1 ELSE 0)
                             + (IF c = b THEN 1 ELSE 0)
            BY <1>1, NullAssumption, WeightIs
        <3> QED BY <1>9, <3>1, <3>2
    <2>2. ASSUME NEW c \in Blocks, block'[c].state = "live", block'[c].managed
          PROVE  block'[c].count = Cardinality(Owners(c)') + Cardinality(Dropping(c)')
        <3>1. block[c].count = Cardinality(Owners(c)) + Cardinality(Dropping(c))
            BY <1>4, <2>2 DEF Alike, Sound, Exact
        <3>2. Cardinality(Owners(c)') + Cardinality(Dropping(c)') - Weight(h, c)'
              = Cardinality(Owners(c)) + Cardinality(Dropping(c)) - Weight(h, c)
            BY <1>2, SumOfOne
        <3>3. CASE c = b
            BY <1>1, <1>4, <1>6, <2>1, <3>2, <3>3, Counted, CountedNext
        <3>4. CASE c # b
            BY <1>4, <2>1, <3>1, <3>2, <3>4, Counted, CountedNext, WeightType
        <3> QED BY <3>3, <3>4
    <2> QED BY <2>2 DEF Exact
<1>19. Kept'
    <2>1. \A c \in Blocks, p \in Objects : Used(c, p) => Used(c, p)'
        BY <1>12 DEF Used
    <2>2. \A c \in Blocks : block'[c].state = "live" /\ block'[c].managed =>
                                block[c].state = "live" /\ block[c].managed
        BY <1>4 DEF Alike
    <2> QED BY <1>1, <1>13, <2>1, <2>2, KeptStays DEF Sound
<1> QED BY <1>1, <1>5, <1>10, <1>11, <1>15, <1>16, <1>17, <1>18, <1>19 DEF Sound

LEMMA ReleaseKeeps ==
    ASSUME Sound, NEW h \in Handles, Release(h)
    PROVE  Sound'
<1>1. tmp[h].raw \in Objects \cup {Null} /\ tmp[h].cb \in Blocks \cup {Null}
    BY DEF Sound, TypeOK, Pointers
<1>2. CASE tmp[h].raw = Null
    BY <1>2, ReleaseNothingKeeps
<1>3. CASE tmp[h].raw \in Objects
    <2>1. tmp[h].cb \in Blocks
        BY <1>1, <1>3, ReleaseFinds
    <2> QED BY <1>3, <2>1, ReleaseSharedKeeps, ReleaseLastKeeps
<1> QED BY <1>1, <1>2, <1>3

LEMMA DestroyLastKeeps ==
    ASSUME Sound, NEW h \in Handles, DestroyLast(h), ~abused'
    PROVE  Sound'
<1>1. PICK o \in Objects : o = tmp[h].raw
    BY DEF DestroyLast, Sound, TypeOK, Pointers, Shape, ShapeOf
<1>2. PICK b \in Blocks \cup {Null} : b = tmp[h].cb
    BY DEF Sound, TypeOK, Pointers
<1>3. pc[h] = "last" /\ Finish(h) /\ UNCHANGED <<raw, cb, src>>
    BY DEF DestroyLast
<1>4. Uses(h, b, o)
    BY <1>1, <1>2, <1>3, NullAssumption DEF Uses, Temp
<1>5. Used(b, o)
    BY <1>4 DEF Used
<1>6. b \in Blocks
    BY <1>5 DEF Sound, Agree
<1>7. block[b].state = "live" /\ object[o].state = "alive" /\ Fits(b, o)
    BY <1>5, <1>6 DEF Sound, Agree
<1>8. /\ object' = Destroyed(o) /\ fault' = "none"
      /\ block' = [block EXCEPT ![b].state = "deleted"]
    <2>1. CASE block[b].m_object = Null
        <3>1. /\ object' = Destroyed(o) /\ fault' = DestroyFault(o, block[b].deleter)
              /\ block' = [block EXCEPT ![b].state = "deleted"]
              /\ ~Dead(block[b].deleter)
            BY <1>1, <1>2, <2>1 DEF DestroyLast
        <3>2. block[b].deleter = object[o].deleter
            BY <1>7, <2>1 DEF Fits
        <3> QED BY <1>7, <3>1, <3>2, DeleterFits
    <2>2. CASE block[b].m_object # Null
        <3>1. block[b].m_object = o /\ object[o].deleter = "inside block"
            BY <1>7, <2>2 DEF Fits
        <3>2. /\ object' = Destroyed(o) /\ fault' = DestroyFault(o, "inside block")
              /\ block' = [block EXCEPT ![b].state = "deleted"]
            BY <1>1, <1>2, <2>2, <3>1 DEF DestroyLast
        <3> QED BY <1>7, <3>1, <3>2, DeleterFits DEF Dead
    <2> QED BY <2>1, <2>2
<1>9. /\ Still({h}) /\ pc'[h] \in {"dead", "ready"}
      /\ tmp'[h] = NoPtr /\ raw'[h] = raw[h] /\ cb'[h] = cb[h]
      /\ pc'[h] = "dead" => raw[h] = Null /\ cb[h] = Null
      /\ \A k \in Handles : src[k] # h
      /\ src'[h] = Null
    BY <1>3, Finished
<1>10. /\ \A c \in Blocks \ {b} : block'[c] = block[c]
       /\ block'[b].state = "deleted" /\ block'[b].managed = block[b].managed
       /\ block' \in [Blocks -> ControlBlocks]
    <2>1. block \in [Blocks -> ControlBlocks]
        BY DEF Sound, TypeOK
    <2>2. [block[b] EXCEPT !.state = "deleted"] \in ControlBlocks
        BY <1>6, <2>1 DEF ControlBlocks
    <2>3. /\ block'[b] = [block[b] EXCEPT !.state = "deleted"]
          /\ \A c \in Blocks \ {b} : block'[c] = block[c]
          /\ block' \in [Blocks -> ControlBlocks]
        BY <1>6, <1>8, <2>1, <2>2
    <2>4. block'[b].state = "deleted" /\ block'[b].managed = block[b].managed
        BY <1>6, <2>1, <2>3 DEF ControlBlocks
    <2> QED BY <2>3, <2>4
<1>11. /\ \A p \in Objects \ {o} : object'[p] = object[p]
       /\ object'[o].state = "destroyed"
    BY <1>8 DEF Destroyed, Sound, TypeOK, ManagedObjects
<1>12. TypeOK'
    <2>1. /\ pc' \in [Handles -> {"dead", "ready", "copy", "assign", "release", "last",
                                  "reset sole", "reset shared"}]
          /\ then' \in [Handles -> {"dead", "ready"}] /\ tmp' \in [Handles -> Pointers]
        BY <1>3, Finished
    <2>2. object' \in [Objects -> ManagedObjects]
        BY <1>8, DestroyedTyped DEF Sound, TypeOK
    <2>3. abused' \in BOOLEAN
        BY DEF DestroyLast, Sound, TypeOK
    <2> QED BY <1>3, <1>8, <1>10, <2>1, <2>2, <2>3 DEF Sound, TypeOK
<1>13. cb[h] # b /\ \A k \in Handles \ {h}, p \in Objects \cup {Null} : ~Uses(k, b, p)
    BY <1>2, <1>3, <1>6 DEF Claim, Sound, Claims
<1>14. \A c \in Blocks : Used(c, o) => c = b
    BY <1>5, <1>6 DEF Sound, Agree
<1>15. \A c \in Blocks \cup {Null}, p \in Objects \cup {Null} :
          Uses(h, c, p)' <=> Main(h, c, p)
    <2>1. pc[h] # "reset shared" /\ pc'[h] \notin {"reset shared", "release", "last"}
        BY <1>3, <1>9
    <2> QED BY <1>9, <2>1 DEF Uses, Main, Temp
<1>16. ASSUME NEW k \in Handles, NEW c \in Blocks \cup {Null}, NEW p \in Objects \cup {Null},
              Uses(k, c, p)'
       PROVE  Uses(k, c, p) /\ c # b
    <2>1. CASE k = h
        BY <1>13, <1>15, <1>16, <2>1 DEF Uses, Main
    <2>2. CASE k # h
        BY <1>9, <1>13, <1>16, <2>2, OtherUses
    <2> QED BY <2>1, <2>2
<1>17. ASSUME NEW c \in Blocks, NEW p \in Objects, Used(c, p), c # b
       PROVE  Used(c, p)'
    <2>1. PICK k \in Handles : Uses(k, c, p)
        BY <1>17 DEF Used
    <2>2. CASE k = h
        <3>1. ~Temp(h, c, p)
            BY <1>2, <1>17 DEF Temp
        <3> QED BY <1>15, <2>1, <2>2, <3>1 DEF Used, Uses
    <2>3. CASE k # h
        BY <1>9, <2>1, <2>3, OtherUses DEF Used
    <2> QED BY <2>2, <2>3
<1>18. \A k \in Handles, p \in Objects : Pending(k, p)' <=> Pending(k, p)
    <2>1. \A p \in Objects : ~Pending(h, p)' /\ ~Pending(h, p)
        BY <1>3, <1>9 DEF Pending
    <2> QED BY <1>9, <2>1, OtherUses
<1>19. FewerUses
    BY <1>16 DEF FewerUses
<1>20. \A c \in Blocks, p \in Objects \cup {Null} : Used(c, p)' => Used(c, p) /\ c # b
    BY <1>16 DEF Used
<1>21. Shape'
    <2>1. ASSUME NEW k \in Handles
          PROVE  cb[k] # Null => /\ cb[k] \in Blocks
                                 /\ block'[cb[k]].state # "free"
                                 /\ block[cb[k]].managed => block'[cb[k]].managed
        <3>1. cb[k] # Null => cb[k] \in Blocks /\ block[cb[k]].state # "free"
            BY DEF Sound, TypeOK, Shape, ShapeOf
        <3> QED BY <1>10, <3>1
    <2>2. ShapeOf(h)'
        <3>1. ShapeOf(h)
            BY DEF Sound, Shape
        <3> QED BY <1>3, <1>9, <2>1, <3>1 DEF ShapeOf
    <2>3. \A c \in Blocks : /\ block[c].state # "free" => block'[c].state # "free"
                            /\ block[c].managed => block'[c].managed
        BY <1>10
    <2> QED BY <1>9, <2>2, <2>3, ShapeStays DEF Sound
<1>22. Sources'
    BY <1>9, SourcesStay DEF Sound
<1>23. Agree'
    <2>1. \A c \in Blocks, p \in Objects \cup {Null} : Used(c, p)' => Alike(c)
        BY <1>10, <1>20 DEF Alike
    <2>2. \A c \in Blocks, p \in Objects : Used(c, p)' => object'[p] = object[p]
        BY <1>11, <1>14, <1>20
    <2> QED BY <1>19, <2>1, <2>2, AgreeStays DEF Sound
<1>24. ASSUME NEW k \in Handles, pc'[k] \in {"last", "reset sole"}
       PROVE  k # h /\ pc'[k] = pc[k] /\ cb'[k] = cb[k]
    BY <1>9, <1>24 DEF Still
<1>25. Resets'
    <2>1. \A k \in Handles, p \in Objects : Pending(k, p)' => object'[p] = object[p]
        <3>1. ASSUME NEW k \in Handles, NEW p \in Objects, Pending(k, p)
              PROVE  p # o
            BY <1>5, <1>6, <3>1 DEF Sound, Resets
        <3> QED BY <1>11, <1>18, <3>1
    <2>2. ASSUME NEW k \in Handles, pc'[k] = "reset sole"
          PROVE  /\ pc[k] = "reset sole" /\ cb'[k] = cb[k] /\ cb[k] \in Blocks
                 /\ tmp'[k] = tmp[k] /\ Alike(cb[k])
        <3>1. k # h /\ pc[k] = "reset sole" /\ cb'[k] = cb[k] /\ tmp'[k] = tmp[k]
            BY <1>9, <1>24, <2>2 DEF Still
        <3>2. cb[k] \in Blocks
            BY <3>1 DEF Sound, TypeOK, Shape, ShapeOf
        <3>3. Uses(k, cb[k], raw[k]) /\ raw[k] \in Objects \cup {Null}
            BY <3>1 DEF Uses, Main, Sound, TypeOK
        <3>4. cb[k] # b
            BY <1>13, <3>1, <3>3
        <3> QED BY <1>10, <3>1, <3>2, <3>4 DEF Alike
    <2> QED BY <1>18, <1>19, <2>1, <2>2, ResetsStay DEF Sound
<1>26. Claims'
    <2>1. ASSUME NEW k \in Handles, NEW c \in Blocks, Claim(k, c)'
          PROVE  /\ Claim(k, c) /\ pc[k] \in {"last", "reset sole"}
                 /\ pc'[k] = "last" => pc[k] = "last" /\ cb'[k] = cb[k]
        <3>1. pc'[k] \in {"last", "reset sole"}
            BY <2>1 DEF Claim
        <3>2. k # h /\ pc[k] = pc'[k] /\ cb'[k] = cb[k]
            BY <1>24, <3>1
        <3>3. Claim(k, c)
            BY <1>9, <2>1, <3>2, OtherUses
        <3> QED BY <3>1, <3>2, <3>3
    <2> QED BY <1>19, <2>1, ClaimsStay DEF Sound
<1>27. Exact'
    <2>1. ASSUME NEW c \in Blocks
          PROVE  Weight(h, c)' = Weight(h, c)
        <3>1. Weight(h, c)' = IF cb[h] = c /\ raw[h] # Null THEN 1 ELSE 0
            BY <1>9, WeightWillBe
        <3>2. Weight(h, c) = IF cb[h] = c /\ raw[h] # Null THEN 1 ELSE 0
            BY <1>3, WeightIs
        <3> QED BY <3>1, <3>2
    <2>2. ASSUME NEW c \in Blocks, block'[c].state = "live", block'[c].managed
          PROVE  block'[c].count = Cardinality(Owners(c)') + Cardinality(Dropping(c)')
        <3>1. block'[c] = block[c]
            BY <1>10, <2>2
        <3>2. Cardinality(Owners(c)') + Cardinality(Dropping(c)')
              = Cardinality(Owners(c)) + Cardinality(Dropping(c))
            BY <1>9, <2>1, OneHandsOver
        <3> QED BY <2>2, <3>1, <3>2 DEF Sound, Exact
    <2> QED BY <2>2 DEF Exact
<1>28. Kept'
    <2>1. ASSUME NEW c \in Blocks, block'[c].state = "live", block'[c].managed
          PROVE  \E p \in Objects : Used(c, p)'
        <3>1. c # b /\ block'[c] = block[c]
            BY <1>10, <2>1
        <3>2. PICK p \in Objects : Used(c, p)
            BY <2>1, <3>1 DEF Sound, Kept
        <3> QED BY <1>17, <3>1, <3>2
    <2>2. ASSUME NEW p \in Objects, object'[p].state = "alive"
          PROVE  (\E c \in Blocks : Used(c, p)') \/ (\E k \in Handles : Pending(k, p)')
        <3>1. p # o /\ object'[p] = object[p]
            BY <1>11, <2>2
        <3>2. CASE \E c \in Blocks : Used(c, p)
            <4>1. PICK c \in Blocks : Used(c, p)
                BY <3>2
            <4>2. c # b
                BY <1>5, <1>6, <3>1, <4>1 DEF Sound, Agree
            <4> QED BY <1>17, <4>1, <4>2
        <3>3. CASE \E k \in Handles : Pending(k, p)
            BY <1>18, <3>3
        <3> QED BY <2>2, <3>1, <3>2, <3>3 DEF Sound, Kept
    <2> QED BY <2>1, <2>2 DEF Kept
<1> QED BY <1>8, <1>12, <1>21, <1>22, <1>23, <1>25, <1>26, <1>27, <1>28 DEF Sound

-----------------------------------------------------------------------------
(* The second half of a copy *)

LEMMA IncrementKeeps ==
    ASSUME Sound, NEW h \in Handles, Increment(h)
    PROVE  Sound'
<1>1. PICK s \in Handles : s = src[h]
    BY DEF Increment, Sound, TypeOK, Sources
<1>2. PICK b \in Blocks \cup {Null} : b = tmp[h].cb
    BY DEF Sound, TypeOK, Pointers
<1>3. PICK o \in Objects \cup {Null} : o = tmp[h].raw
    BY DEF Sound, TypeOK, Pointers
<1>4. /\ pc[h] \in {"copy", "assign"} /\ cb[s] = b /\ raw[s] = o
      /\ pc[s] = "ready" \/ s = h
    <2>1. pc[h] \in {"copy", "assign"}
        BY DEF Increment
    <2>2. tmp[h] = Ptr(s) /\ (pc[s] = "ready" \/ s = h)
        BY <1>1, <2>1 DEF Sound, Sources
    <2> QED BY <1>2, <1>3, <2>1, <2>2 DEF Ptr
<1>5. /\ raw' = [raw EXCEPT ![h] = o] /\ cb' = [cb EXCEPT ![h] = b]
      /\ pc' = [pc EXCEPT ![h] = IF pc[h] = "copy" THEN "ready" ELSE "release"]
      /\ tmp' = [tmp EXCEPT ![h] = IF pc[h] = "copy" THEN NoPtr ELSE Ptr(h)]
      /\ then' = [then EXCEPT ![h] = IF pc[h] = "copy" THEN "dead" ELSE "ready"]
      /\ src' = [src EXCEPT ![h] = Null]
      /\ UNCHANGED <<object, abused>>
    BY <1>2, <1>3 DEF Increment, Become
<1>6. Uses(s, b, o) /\ pc[s] \notin {"last", "reset sole"}
    BY <1>4 DEF Uses, Main
<1>7. Used(b, o)
    BY <1>6 DEF Used
<1>8. b = Null => o = Null
    BY <1>7 DEF Sound, Agree
<1>9. b # Null => /\ b \in Blocks /\ block[b].state = "live"
                  /\ (o # Null <=> block[b].managed)
    BY <1>7 DEF Sound, Agree
<1>10. /\ fault' = "none"
       /\ b = Null => block' = block
       /\ b # Null => block' = [block EXCEPT ![b].count = Incremented(block[b].count)]
    <2>1. CASE b = Null
        BY <1>2, <2>1 DEF Increment, Sound
    <2>2. CASE b # Null
        BY <1>2, <1>9, <2>2 DEF Increment, Sound
    <2> QED BY <2>1, <2>2
<1>11. b # Null => /\ block[b].count \in 0..(CountMod - 1)
                   /\ Incremented(block[b].count) \in 0..(CountMod - 1)
    BY <1>9, Arithmetic DEF Sound, TypeOK, ControlBlocks
<1>12. /\ block' \in [Blocks -> ControlBlocks] /\ \A c \in Blocks : Alike(c)
       /\ b # Null => block'[b].count = Incremented(block[b].count)
       /\ \A c \in Blocks \ {b} : block'[c].count = block[c].count
    <2>1. CASE b = Null
        BY <1>10, <2>1, NullAssumption DEF Alike, Sound, TypeOK
    <2>2. CASE b # Null
        BY <1>9, <1>10, <1>11, <2>2, CountStep DEF Sound
    <2> QED BY <2>1, <2>2
<1>13. TypeOK'
    <2>1. NoPtr \in Pointers /\ Ptr(h) \in Pointers
        BY DEF NoPtr, Ptr, Pointers, Sound, TypeOK
    <2> QED BY <1>5, <1>10, <1>12, <2>1 DEF Sound, TypeOK
<1>14. Still({h})
    BY <1>5 DEF Still, Sound, TypeOK
<1>15. /\ raw'[h] = o /\ cb'[h] = b /\ src'[h] = Null
       /\ pc[h] = "copy" => pc'[h] = "ready"
       /\ pc[h] = "assign" => pc'[h] = "release" /\ then'[h] = "ready" /\ tmp'[h] = Ptr(h)
    BY <1>5 DEF Sound, TypeOK
<1>16. pc[h] = "copy" => raw[h] = Null /\ cb[h] = Null
    BY DEF Sound, Shape, ShapeOf
<1>17. \A k \in Handles \ {h} : src[k] # h
    BY <1>4, NullAssumption DEF Sound, Sources
<1>18. Shape'
    <2>1. b # Null => block'[b].state # "free"
        BY <1>9, <1>12 DEF Alike
    <2>2. ShapeOf(h)'
        BY <1>4, <1>8, <1>15, <2>1 DEF ShapeOf
    <2>3. \A c \in Blocks : /\ block[c].state # "free" => block'[c].state # "free"
                            /\ block[c].managed => block'[c].managed
        BY <1>12 DEF Alike
    <2> QED BY <1>14, <2>2, <2>3, ShapeStays DEF Sound
<1>19. Sources'
    <2>1. pc'[h] \notin {"copy", "assign"} /\ src'[h] = Null
        BY <1>4, <1>15
    <2> QED BY <1>14, <1>17, <2>1, SourcesStay DEF Sound
<1>20. ASSUME NEW c \in Blocks \cup {Null}, NEW p \in Objects \cup {Null}, c # Null \/ p # Null,
              Uses(h, c, p)'
       PROVE  Uses(s, c, p) \/ Uses(h, c, p)
    <2>1. CASE Main(h, c, p)'
        <3>1. c = b /\ p = o
            BY <1>15, <2>1 DEF Main
        <3> QED BY <1>6, <3>1
    <2>2. CASE Temp(h, c, p)'
        <3>1. pc[h] = "assign" /\ tmp'[h] = Ptr(h)
            BY <1>4, <1>15, <2>2 DEF Temp
        <3>2. cb[h] = c /\ raw[h] = p
            BY <2>2, <3>1 DEF Temp, Ptr
        <3> QED BY <3>1, <3>2 DEF Uses, Main
    <2> QED BY <1>20, <2>1, <2>2 DEF Uses
<1>21. \A k \in Handles, p \in Objects : Pending(k, p)' <=> Pending(k, p)
    <2>1. \A p \in Objects : ~Pending(h, p)' /\ ~Pending(h, p)
        BY <1>4, <1>15 DEF Pending
    <2> QED BY <1>14, <2>1, OtherUses
<1>22. FewerUses
    <2>1. ASSUME NEW k \in Handles, NEW c \in Blocks \cup {Null}, NEW p \in Objects \cup {Null},
                 c # Null \/ p # Null, Uses(k, c, p)'
          PROVE  \E i \in Handles : Uses(i, c, p) /\ (i = k \/ pc[i] \notin {"last", "reset sole"})
        <3>1. CASE k = h
            <4>1. Uses(h, c, p)'
                BY <2>1, <3>1 DEF Uses, Main, Temp
            <4>2. Uses(s, c, p) \/ Uses(h, c, p)
                BY <1>20, <2>1, <4>1
            <4> QED BY <1>6, <3>1, <4>2
        <3>2. CASE k # h
            BY <1>14, <2>1, <3>2, OtherUses
        <3> QED BY <3>1, <3>2
    <2> QED BY <2>1 DEF FewerUses
<1>23. Agree'
    BY <1>5, <1>12, <1>22, AgreeStays DEF Sound
<1>24. ASSUME NEW k \in Handles, pc'[k] \in {"last", "reset sole"}
       PROVE  k # h /\ pc'[k] = pc[k] /\ cb'[k] = cb[k] /\ tmp'[k] = tmp[k]
    <2>1. k # h
        BY <1>4, <1>15, <1>24
    <2> QED BY <1>14, <2>1 DEF Still
<1>25. Resets'
    <2>1. ASSUME NEW k \in Handles, pc'[k] = "reset sole"
          PROVE  /\ pc[k] = "reset sole" /\ cb'[k] = cb[k] /\ cb[k] \in Blocks
                 /\ tmp'[k] = tmp[k]
        BY <1>24, <2>1 DEF Sound, Shape, ShapeOf, TypeOK
    <2> QED BY <1>5, <1>12, <1>21, <1>22, <2>1, ResetsStay DEF Sound
<1>26. Claims'
    <2>1. ASSUME NEW k \in Handles, NEW c \in Blocks, Claim(k, c)'
          PROVE  /\ Claim(k, c) /\ pc[k] \in {"last", "reset sole"}
                 /\ pc'[k] = "last" => pc[k] = "last" /\ cb'[k] = cb[k]
        <3>1. pc'[k] \in {"last", "reset sole"}
            BY <2>1 DEF Claim
        <3>2. k # h /\ pc[k] = pc'[k] /\ cb'[k] = cb[k]
            BY <1>24, <3>1
        <3>3. Claim(k, c)
            BY <1>14, <2>1, <3>2, OtherUses
        <3> QED BY <3>1, <3>2, <3>3
    <2> QED BY <1>22, <2>1, ClaimsStay DEF Sound
<1>27. Exact'
    <2>1. ASSUME NEW c \in Blocks
          PROVE  Weight(h, c)' = Weight(h, c) + (IF c = b /\ o # Null THEN 1 ELSE 0)
        <3>1. Weight(h, c) = IF cb[h] = c /\ raw[h] # Null THEN 1 ELSE 0
            BY <1>4, WeightIs
        <3>2. CASE pc[h] = "copy"
            <4>1. Weight(h, c)' = IF c = b /\ o # Null THEN 1 ELSE 0
                BY <1>15, <3>2, WeightWillBe
            <4> QED BY <1>16, <3>1, <3>2, <4>1
        <3>3. CASE pc[h] = "assign"
            <4>1. tmp'[h].raw = raw[h] /\ tmp'[h].cb = cb[h]
                BY <1>15, <3>3 DEF Ptr
            <4>2. Weight(h, c)' = (IF c = b /\ o # Null THEN 1 ELSE 0)
                                  + (IF cb[h] = c /\ raw[h] # Null THEN 1 ELSE 0)
                BY <1>15, <3>3, <4>1, WeightWillBe
            <4> QED BY <3>1, <4>2
        <3> QED BY <1>4, <3>2, <3>3
    <2>2. ASSUME NEW c \in Blocks, block'[c].state = "live", block'[c].managed
          PROVE  block'[c].count = Cardinality(Owners(c)') + Cardinality(Dropping(c)')
        <3>1. block[c].managed /\ block[c].count = Cardinality(Owners(c)) + Cardinality(Dropping(c))
            BY <1>12, <2>2 DEF Alike, Sound, Exact
        <3>2. Cardinality(Owners(c)') + Cardinality(Dropping(c)') - Weight(h, c)'
              = Cardinality(Owners(c)) + Cardinality(Dropping(c)) - Weight(h, c)
            BY <1>14, SumOfOne
        <3>3. CASE c = b
            <4>1. o # Null /\ b # Null
                BY <1>9, <3>1, <3>3, NullAssumption
            <4>2. Cardinality(Owners(c)') + Cardinality(Dropping(c)')
                  = Cardinality(Owners(c)) + Cardinality(Dropping(c)) + 1
                BY <2>1, <3>2, <3>3, <4>1, Counted, CountedNext, WeightType
            <4>3. Cardinality(Owners(c)') + Cardinality(Dropping(c)') <= 2 * Cardinality(Handles)
                BY Counted, CountedNext
            <4>4. 2 * Cardinality(Handles) < CountMod /\ CountMod \in Nat
                BY CountAssumption
            <4>5. block[b].count + 1 < CountMod
                BY <3>1, <3>3, <4>2, <4>3, <4>4, Counted, CountedNext
            <4>6. Incremented(block[b].count) = block[b].count + 1
                BY <1>11, <4>1, <4>5, Arithmetic
            <4> QED BY <1>12, <3>1, <3>3, <4>1, <4>2, <4>6
        <3>4. CASE c # b
            <4>1. Weight(h, c)' = Weight(h, c)
                BY <2>1, <3>4, WeightType
            <4> QED BY <1>12, <3>1, <3>2, <3>4, <4>1, Counted, CountedNext, WeightType
        <3> QED BY <3>3, <3>4
    <2> QED BY <2>2 DEF Exact
<1>28. Kept'
    <2>1. ASSUME NEW c \in Blocks, NEW p \in Objects, Used(c, p)
          PROVE  Used(c, p)'
        <3>1. PICK k \in Handles : Uses(k, c, p)
            BY <2>1 DEF Used
        <3>2. CASE k = h
            <4>1. cb[h] = c /\ raw[h] = p /\ p # Null
                BY <1>4, <3>1, <3>2, NullAssumption DEF Uses, Main, Temp
            <4>2. pc[h] = "assign"
                BY <1>4, <1>16, <4>1
            <4>3. tmp'[h].raw = raw[h] /\ tmp'[h].cb = cb[h] /\ pc'[h] = "release"
                BY <1>15, <4>2 DEF Ptr
            <4>4. Uses(h, c, p)'
                BY <4>1, <4>3 DEF Uses, Temp
            <4> QED BY <4>4 DEF Used
        <3>3. CASE k # h
            BY <1>14, <3>1, <3>3, OtherUses DEF Used
        <3> QED BY <3>2, <3>3
    <2>2. \A c \in Blocks : block'[c].state = "live" /\ block'[c].managed =>
                                block[c].state = "live" /\ block[c].managed
        BY <1>12 DEF Alike
    <2> QED BY <1>5, <1>21, <2>1, <2>2, KeptStays DEF Sound
<1> QED BY <1>10, <1>13, <1>18, <1>19, <1>23, <1>25, <1>26, <1>27, <1>28 DEF Sound

-----------------------------------------------------------------------------
(* The first half of a reset *)

LEMMA BornTyped ==
    ASSUME NEW o \in Objects, NEW d \in Deleters, object \in [Objects -> ManagedObjects], Born(o, d)
    PROVE  /\ object' \in [Objects -> ManagedObjects]
           /\ \A p \in Objects \ {o} : object'[p] = object[p]
           /\ object'[o].state = "alive" /\ object'[o].deleter = d
<1>1. [state |-> "alive", deleter |-> d] \in ManagedObjects
    BY DEF ManagedObjects
<1>2. object' = [object EXCEPT ![o] = [state |-> "alive", deleter |-> d]]
    BY DEF Born
<1>3. object' \in [Objects -> ManagedObjects]
    BY <1>1, <1>2
<1> QED BY <1>2, <1>3

LEMMA FreshIsUnused ==
    ASSUME Sound, NEW o \in Objects, Fresh(o)
    PROVE  /\ \A b \in Blocks \cup {Null} : ~Used(b, o)
           /\ \A k \in Handles : ~Pending(k, o)
BY DEF Fresh, Sound, Agree, Resets

LEMMA ResetKeeps ==
    ASSUME Sound, NEW h \in Handles, NEW o \in Objects \cup {Null}, Reset(h, o),
           ~CannotReset(h, o)
    PROVE  Sound'
<1>1. PICK b \in Blocks : b = cb[h]
    BY DEF CannotReset, Sound, TypeOK
<1>2. PICK q \in Objects \cup {Null} : q = raw[h]
    BY DEF Sound, TypeOK
<1>3. /\ pc[h] = "ready" /\ \A k \in Handles : src[k] # h
      /\ o = Null => object' = object
      /\ o # Null => Fresh(o) /\ Born(o, Default(h))
    BY DEF Reset, Mine, Idle
<1>4. Uses(h, b, q)
    BY <1>1, <1>2, <1>3 DEF Uses, Main
<1>5. Used(b, q)
    BY <1>4 DEF Used
<1>6. block[b].state = "live" /\ (q # Null <=> block[b].managed)
    BY <1>5 DEF Sound, Agree
<1>7. block[b].count \in 0..(CountMod - 1)
    BY DEF Sound, TypeOK, ControlBlocks
<1>8. /\ Decremented(block[b].count) \in 0..(CountMod - 1)
      /\ block[b].count > 0 => Decremented(block[b].count) = block[b].count - 1
      /\ Decremented(block[b].count) = 0 <=> block[b].count = 1
    BY <1>7, Arithmetic, MoreThanOne
<1>9. /\ tmp' = [tmp EXCEPT ![h] = [raw |-> o, cb |-> Null]]
      /\ block' = [block EXCEPT ![b].count = Decremented(block[b].count)]
      /\ pc' = [pc EXCEPT ![h] = IF block[b].count = 1 THEN "reset sole" ELSE "reset shared"]
      /\ fault' = "none" /\ abused' \in BOOLEAN
      /\ UNCHANGED <<raw, cb, src, then>>
    <2>1. b # Null
        BY NullAssumption
    <2>2. /\ block' = [block EXCEPT ![b].count = Decremented(@)]
          /\ pc' = [pc EXCEPT ![h] = IF Decremented(block[b].count) = 0
                                     THEN "reset sole" ELSE "reset shared"]
          /\ UNCHANGED fault
        BY <1>1, <1>6, <2>1 DEF Reset
    <2>3. /\ tmp' = [tmp EXCEPT ![h] = [raw |-> o, cb |-> Null]]
          /\ UNCHANGED <<raw, cb, src, then>>
        BY DEF Reset
    <2>4. abused' \in BOOLEAN
        BY DEF Reset
    <2> QED BY <1>8, <2>2, <2>3, <2>4 DEF Sound
<1>10. /\ block' \in [Blocks -> ControlBlocks] /\ \A c \in Blocks : Alike(c)
       /\ block'[b].count = Decremented(block[b].count)
       /\ \A c \in Blocks \ {b} : block'[c].count = block[c].count
    BY <1>8, <1>9, CountStep DEF Sound
<1>11. /\ object' \in [Objects -> ManagedObjects]
       /\ \A p \in Objects \ {o} : object'[p] = object[p]
       /\ o # Null => object'[o].state = "alive" /\ object'[o].deleter = Default(h)
    <2>1. Default(h) \in Deleters
        BY DEF Default, Deleters
    <2>2. CASE o = Null
        BY <1>3, <2>2 DEF Sound, TypeOK
    <2>3. CASE o # Null
        BY <1>3, <2>1, <2>3, BornTyped DEF Sound, TypeOK
    <2> QED BY <2>2, <2>3
<1>12. o # Null => /\ \A c \in Blocks \cup {Null} : ~Used(c, o)
                   /\ \A k \in Handles : ~Pending(k, o)
    BY <1>3, FreshIsUnused
<1>13. TypeOK'
    <2>1. [raw |-> o, cb |-> Null] \in Pointers
        BY DEF Pointers
    <2> QED BY <1>9, <1>10, <1>11, <2>1 DEF Sound, TypeOK
<1>14. Still({h})
    BY <1>9 DEF Still, Sound, TypeOK
<1>15. /\ raw'[h] = q /\ cb'[h] = b /\ tmp'[h].raw = o /\ src'[h] = Null
       /\ block[b].count = 1 => pc'[h] = "reset sole"
       /\ block[b].count # 1 => pc'[h] = "reset shared"
    <2>1. src[h] = Null
        BY <1>3 DEF Sound, Sources
    <2> QED BY <1>1, <1>2, <1>9, <2>1 DEF Sound, TypeOK
<1>16. pc'[h] \in {"reset sole", "reset shared"}
    BY <1>15
<1>17. Shape'
    <2>1. block'[b].state # "free" /\ b # Null
        BY <1>6, <1>10, NullAssumption DEF Alike
    <2>2. ShapeOf(h)'
        BY <1>15, <1>16, <2>1 DEF ShapeOf
    <2>3. \A c \in Blocks : /\ block[c].state # "free" => block'[c].state # "free"
                            /\ block[c].managed => block'[c].managed
        BY <1>10 DEF Alike
    <2> QED BY <1>14, <2>2, <2>3, ShapeStays DEF Sound
<1>18. Sources'
    BY <1>3, <1>14, <1>15, <1>16, SourcesStay DEF Sound
<1>19. \A c \in Blocks \cup {Null}, p \in Objects \cup {Null} : Uses(h, c, p)' => Uses(h, c, p)
    BY <1>1, <1>2, <1>3, <1>15, <1>16 DEF Uses, Main, Temp
<1>20. ASSUME NEW k \in Handles, NEW c \in Blocks \cup {Null}, NEW p \in Objects \cup {Null},
              Uses(k, c, p)'
       PROVE  Uses(k, c, p)
    <2>1. CASE k = h
        <3>1. Uses(h, c, p)'
            BY <1>20, <2>1 DEF Uses, Main, Temp
        <3> QED BY <1>19, <2>1, <3>1
    <2>2. CASE k # h
        BY <1>14, <1>20, <2>2, OtherUses
    <2> QED BY <2>1, <2>2
<1>21. FewerUses
    BY <1>20 DEF FewerUses
<1>22. \A c \in Blocks, p \in Objects \cup {Null} : Used(c, p)' => Used(c, p)
    BY <1>20 DEF Used
<1>23. ASSUME NEW k \in Handles, NEW p \in Objects
       PROVE  Pending(k, p)' <=> Pending(k, p) \/ (k = h /\ p = o)
    <2>1. CASE k = h
        <3>1. ~Pending(h, p)
            BY <1>3 DEF Pending
        <3>2. Pending(h, p)' <=> p = o
            BY <1>15, <1>16 DEF Pending
        <3>3. Pending(k, p)' <=> Pending(h, p)'
            BY <2>1 DEF Pending
        <3> QED BY <2>1, <3>1, <3>2, <3>3
    <2>2. CASE k # h
        BY <1>14, <2>2, OtherUses
    <2> QED BY <2>1, <2>2
<1>24. Agree'
    <2>1. \A c \in Blocks, p \in Objects : Used(c, p)' => object'[p] = object[p]
        BY <1>11, <1>12, <1>22, NullAssumption
    <2> QED BY <1>10, <1>21, <2>1, AgreeStays DEF Sound
<1>25. Resets'
    <2>1. ASSUME NEW k \in Handles, NEW p \in Objects, Pending(k, p)'
          PROVE  /\ object'[p].state = "alive" /\ object'[p].deleter = Default(k)
                 /\ \A c \in Blocks : ~Used(c, p)'
                 /\ \A g \in Handles \ {k} : ~Pending(g, p)'
        <3>1. CASE k = h /\ p = o
            <4>1. \A c \in Blocks : ~Used(c, o)'
                BY <1>12, <1>22, <3>1, NullAssumption
            <4>2. \A g \in Handles \ {h} : ~Pending(g, o)'
                BY <1>12, <1>23, <3>1, NullAssumption
            <4>3. \A c \in Blocks : ~Used(c, p)'
                BY <3>1, <4>1
            <4>4. \A g \in Handles \ {k} : ~Pending(g, p)'
                BY <3>1, <4>2
            <4> QED BY <1>11, <3>1, <4>3, <4>4, NullAssumption
        <3>2. CASE Pending(k, p)
            <4>1. p # o
                BY <1>12, <3>2, NullAssumption
            <4>2. /\ object[p].state = "alive" /\ object[p].deleter = Default(k)
                  /\ \A c \in Blocks : ~Used(c, p)
                  /\ \A g \in Handles \ {k} : ~Pending(g, p)
                BY <3>2 DEF Sound, Resets
            <4>3. object'[p] = object[p]
                BY <1>11, <4>1
            <4>4. \A c \in Blocks : ~Used(c, p)'
                BY <1>22, <4>2
            <4>5. \A g \in Handles \ {k} : ~Pending(g, p)'
                BY <1>23, <4>1, <4>2
            <4> QED BY <4>2, <4>3, <4>4, <4>5
        <3> QED BY <1>23, <2>1, <3>1, <3>2
    <2>2. ASSUME NEW k \in Handles, pc'[k] = "reset sole"
          PROVE  Keepable(k)'
        <3>0. Default(k)' = Default(k)
            BY DEF Default
        <3>1. CASE k = h
            <4>1. block[b].count = 1
                BY <1>15, <2>2, <3>1
            <4>2. /\ block[b].m_object = Null /\ ~Dead(block[b].deleter)
                  /\ o # Null => block[b].deleter = Default(h)
                BY <1>1, <4>1 DEF CannotReset
            <4> QED BY <1>10, <1>15, <3>0, <3>1, <4>2 DEF Alike, Keepable, Dead
        <3>2. CASE k # h
            <4>1. pc[k] = "reset sole" /\ cb'[k] = cb[k] /\ tmp'[k] = tmp[k]
                BY <1>14, <2>2, <3>2 DEF Still
            <4>2. cb[k] \in Blocks
                BY <4>1 DEF Sound, TypeOK, Shape, ShapeOf
            <4>3. Keepable(k)
                BY <4>1 DEF Sound, Resets
            <4> QED BY <1>10, <3>0, <4>1, <4>2, <4>3 DEF Alike, Keepable, Dead
        <3> QED BY <3>1, <3>2
    <2>3. \A k \in Handles : Default(k)' = Default(k)
        BY DEF Default
    <2> QED BY <2>1, <2>2, <2>3 DEF Resets
<1>26. q # Null => block[b].count = Cardinality(Owners(b)) + Cardinality(Dropping(b))
    BY <1>6 DEF Sound, Exact
<1>27. Weight(h, b) = IF q # Null THEN 1 ELSE 0
    BY <1>1, <1>2, <1>3, WeightIs
<1>28. ASSUME block[b].count = 1
       PROVE  \A k \in Handles \ {h}, p \in Objects \cup {Null} : ~Uses(k, b, p)
    <2>1. CASE q # Null
        <3>1. \A k \in Handles \ {h} : k \notin Owners(b) /\ k \notin Dropping(b)
            BY <1>26, <1>27, <1>28, <2>1, NobodyElse
        <3> QED BY <1>4, <2>1, <3>1, AloneWith
    <2>2. CASE q = Null
        <3>1. \A k \in Handles \ {h} : cb[k] # b
            BY <1>1, <1>2, <1>28, <2>2 DEF CannotReset
        <3>2. \A p \in Objects : ~Used(b, p)
            BY <1>6, <2>2 DEF Sound, Agree
        <3>3. ASSUME NEW k \in Handles \ {h}, NEW p \in Objects \cup {Null}, Uses(k, b, p)
              PROVE  FALSE
            <4>1. Temp(k, b, p)
                BY <3>1, <3>3 DEF Uses, Main
            <4>2. p \in Objects
                BY <4>1 DEF Temp
            <4> QED BY <3>2, <3>3, <4>2 DEF Used
        <3> QED BY <3>3
    <2> QED BY <2>1, <2>2
<1>29. Claims'
    <2>1. ASSUME NEW k \in Handles, NEW c \in Blocks, Claim(k, c)'
          PROVE  /\ \A g \in Handles \ {k}, p \in Objects \cup {Null} : ~Uses(g, c, p)'
                 /\ pc'[k] = "last" => cb'[k] # c
        <3>1. CASE k = h
            <4>1. pc'[h] = "reset sole" /\ c = b
                BY <1>15, <1>16, <2>1, <3>1 DEF Claim
            <4>2. block[b].count = 1
                BY <1>15, <4>1
            <4>3. \A g \in Handles \ {k}, p \in Objects \cup {Null} : ~Uses(g, c, p)
                BY <1>28, <3>1, <4>1, <4>2
            <4> QED BY <1>20, <3>1, <4>1, <4>3
        <3>2. CASE k # h
            <4>1. pc'[k] = pc[k] /\ cb'[k] = cb[k]
                BY <1>14, <3>2 DEF Still
            <4>2. Claim(k, c)
                BY <1>14, <2>1, <3>2, OtherUses
            <4> QED BY <1>20, <4>1, <4>2 DEF Sound, Claims
        <3> QED BY <3>1, <3>2
    <2> QED BY <2>1 DEF Claims
<1>30. Exact'
    <2>1. ASSUME NEW c \in Blocks
          PROVE  Weight(h, c)' = 0 /\ (c # b => Weight(h, c) = 0)
        <3>1. Weight(h, c)' = 0
            <4>1. pc'[h] \notin {"ready", "copy", "assign", "release", "last"} /\ pc'[h] # "release"
                BY <1>16
            <4> QED BY <4>1, WeightWillBe
        <3>2. c # b => Weight(h, c) = 0
            BY <1>1, <1>3, WeightIs
        <3> QED BY <3>1, <3>2
    <2>2. ASSUME NEW c \in Blocks, block'[c].state = "live", block'[c].managed
          PROVE  block'[c].count = Cardinality(Owners(c)') + Cardinality(Dropping(c)')
        <3>1. block[c].managed /\ block[c].count = Cardinality(Owners(c)) + Cardinality(Dropping(c))
            BY <1>10, <2>2 DEF Alike, Sound, Exact
        <3>2. Cardinality(Owners(c)') + Cardinality(Dropping(c)') - Weight(h, c)'
              = Cardinality(Owners(c)) + Cardinality(Dropping(c)) - Weight(h, c)
            BY <1>14, SumOfOne
        <3>3. CASE c = b
            <4>1. Weight(h, b) = 1
                BY <1>6, <1>27, <3>1, <3>3
            <4>2. Cardinality(Owners(c)') + Cardinality(Dropping(c)')
                  = Cardinality(Owners(c)) + Cardinality(Dropping(c)) - 1
                BY <2>1, <3>2, <3>3, <4>1, Counted, CountedNext
            <4>3. block[b].count > 0
                BY <3>1, <3>3, <4>2, Counted, CountedNext
            <4>4. block'[b].count = block[b].count - 1
                BY <1>8, <1>10, <4>3
            <4>5. block'[c].count = block[c].count - 1
                BY <3>3, <4>4
            <4>6. block[c].count = Cardinality(Owners(c)) + Cardinality(Dropping(c))
                BY <3>1
            <4> QED BY <4>2, <4>5, <4>6, Counted, CountedNext
        <3>4. CASE c # b
            BY <1>10, <2>1, <3>1, <3>2, <3>4, Counted, CountedNext
        <3> QED BY <3>3, <3>4
    <2> QED BY <2>2 DEF Exact
<1>31. ASSUME NEW c \in Blocks, NEW p \in Objects, Used(c, p)
       PROVE  Used(c, p)'
    <2>1. PICK k \in Handles : Uses(k, c, p)
        BY <1>31 DEF Used
    <2>2. CASE k # h
        BY <1>14, <2>1, <2>2, OtherUses DEF Used
    <2>3. CASE k = h
        <3>1. c = b /\ p = q /\ q # Null
            BY <1>1, <1>2, <1>3, <2>1, <2>3, NullAssumption DEF Uses, Main, Temp
        <3>2. CASE block[b].count = 1
            <4>1. Uses(h, c, p)'
                BY <1>15, <3>1, <3>2 DEF Uses, Main
            <4> QED BY <4>1 DEF Used
        <3>3. CASE block[b].count # 1
            <4>1. PICK i \in Handles \ {h} : i \in Owners(b) \/ i \in Dropping(b)
                BY <1>26, <1>27, <3>1, <3>3, SomebodyElse
            <4>2. PICK r \in Objects : Uses(i, b, r)
                BY <4>1, CountedUses
            <4>3. r = q
                BY <1>5, <3>1, <4>2 DEF Used, Sound, Agree
            <4>4. Uses(i, c, p)'
                BY <1>14, <3>1, <4>1, <4>2, <4>3, OtherUses
            <4> QED BY <4>4 DEF Used
        <3> QED BY <3>2, <3>3
    <2> QED BY <2>2, <2>3
<1>32. Kept'
    <2>1. ASSUME NEW c \in Blocks, block'[c].state = "live", block'[c].managed
          PROVE  \E p \in Objects : Used(c, p)'
        <3>1. block[c].state = "live" /\ block[c].managed
            BY <1>10, <2>1 DEF Alike
        <3>2. PICK p \in Objects : Used(c, p)
            BY <3>1 DEF Sound, Kept
        <3> QED BY <1>31, <3>2
    <2>2. ASSUME NEW p \in Objects, object'[p].state = "alive"
          PROVE  (\E c \in Blocks : Used(c, p)') \/ (\E k \in Handles : Pending(k, p)')
        <3>1. CASE p = o
            BY <1>23, <3>1
        <3>2. CASE p # o
            <4>1. object[p].state = "alive"
                BY <1>11, <2>2, <3>2
            <4>2. (\E c \in Blocks : Used(c, p)) \/ (\E k \in Handles : Pending(k, p))
                BY <4>1 DEF Sound, Kept
            <4> QED BY <1>23, <1>31, <4>2
        <3> QED BY <3>1, <3>2
    <2> QED BY <2>1, <2>2 DEF Kept
<1> QED BY <1>9, <1>13, <1>17, <1>18, <1>24, <1>25, <1>29, <1>30, <1>32 DEF Sound

-----------------------------------------------------------------------------
(* Every step *)

\* A constructor that fails leaves the handles and the blocks as they were.
LEMMA CustomThrowsKeeps ==
    ASSUME Sound, NEW h \in Handles, NEW o \in Objects, ConstructCustomThrows(h, o)
    PROVE  Sound'
<1>1. /\ UNCHANGED <<pc, raw, cb, tmp, src, then, block, fault, abused>> /\ Fresh(o)
      /\ object' = [object EXCEPT ![o] = [state |-> "destroyed", deleter |-> "custom"]]
    BY DEF ConstructCustomThrows, handle
<1>2. /\ \A c \in Blocks \cup {Null} : ~Used(c, o)
      /\ \A k \in Handles : ~Pending(k, o)
    BY <1>1, FreshIsUnused
<1>3. /\ object' \in [Objects -> ManagedObjects]
      /\ \A p \in Objects \ {o} : object'[p] = object[p]
      /\ object'[o].state = "destroyed"
    <2>1. [state |-> "destroyed", deleter |-> "custom"] \in ManagedObjects
        BY DEF ManagedObjects, Deleters
    <2> QED BY <1>1, <2>1 DEF Sound, TypeOK
<1>4. TypeOK'
    BY <1>1, <1>3 DEF Sound, TypeOK
<1>5. \A k \in Handles, c \in Blocks \cup {Null}, p \in Objects \cup {Null} :
          Uses(k, c, p)' <=> Uses(k, c, p)
    BY <1>1 DEF Uses, Main, Temp
<1>6. \A k \in Handles, p \in Objects : Pending(k, p)' <=> Pending(k, p)
    BY <1>1 DEF Pending
<1>7. FewerUses
    BY <1>5 DEF FewerUses
<1>8. \A c \in Blocks, p \in Objects \cup {Null} : Used(c, p)' <=> Used(c, p)
    BY <1>5 DEF Used
<1>9. \A c \in Blocks : Alike(c)
    BY <1>1 DEF Alike
<1>10. Shape'
    BY <1>1 DEF Sound, Shape, ShapeOf
<1>11. Sources'
    BY <1>1 DEF Sound, Sources, Ptr
<1>12. Agree'
    <2>1. \A c \in Blocks, p \in Objects : Used(c, p)' => object'[p] = object[p]
        BY <1>2, <1>3, <1>8
    <2> QED BY <1>7, <1>9, <2>1, AgreeStays DEF Sound
<1>13. Resets'
    <2>1. \A k \in Handles, p \in Objects : Pending(k, p)' => object'[p] = object[p]
        BY <1>2, <1>3, <1>6
    <2>2. ASSUME NEW k \in Handles, pc'[k] = "reset sole"
          PROVE  /\ pc[k] = "reset sole" /\ cb'[k] = cb[k] /\ cb[k] \in Blocks
                 /\ tmp'[k] = tmp[k]
        BY <1>1, <2>2 DEF Sound, TypeOK, Shape, ShapeOf
    <2> QED BY <1>6, <1>7, <1>9, <2>1, <2>2, ResetsStay DEF Sound
<1>14. Claims'
    <2>1. ASSUME NEW k \in Handles, NEW c \in Blocks, Claim(k, c)'
          PROVE  /\ Claim(k, c) /\ pc[k] \in {"last", "reset sole"}
                 /\ pc'[k] = "last" => pc[k] = "last" /\ cb'[k] = cb[k]
        BY <1>1, <2>1 DEF Claim
    <2> QED BY <1>7, <2>1, ClaimsStay DEF Sound
<1>15. Exact'
    BY <1>1 DEF Sound, Exact, Owners, Dropping
<1>16. Kept'
    <2>1. \A p \in Objects : object'[p].state = "alive" => object[p].state = "alive"
        BY <1>3
    <2> QED BY <1>1, <1>6, <1>8, <2>1, KeptStays DEF Sound
<1> QED BY <1>1, <1>4, <1>10, <1>11, <1>12, <1>13, <1>14, <1>15, <1>16 DEF Sound

LEMMA StutterKeeps == IInv /\ UNCHANGED vars => IInv'
<1> SUFFICES ASSUME Sound, UNCHANGED <<pc, raw, cb, tmp, src, then, block, object, fault, abused>>
             PROVE  Sound'
    BY DEF IInv, vars, handle, heap
<1>1. TypeOK' /\ fault' = "none"
    BY DEF Sound, TypeOK
<1>2. Shape' /\ Sources'
    BY DEF Sound, Shape, ShapeOf, Sources, Ptr
<1>3. \A h \in Handles : \A b, o : Uses(h, b, o)' <=> Uses(h, b, o)
    BY DEF Uses, Main, Temp
<1>4. \A b, o : Used(b, o)' <=> Used(b, o)
    BY <1>3 DEF Used
<1>5. \A h, o : Pending(h, o)' <=> Pending(h, o)
    BY DEF Pending
<1>6. \A b, o : Fits(b, o)' <=> Fits(b, o)
    BY DEF Fits
<1>7. Agree'
    BY <1>4, <1>6 DEF Sound, Agree
<1>8. Resets'
    BY <1>4, <1>5 DEF Sound, Resets, Keepable, Dead, Default
<1>9. Claims'
    BY <1>3 DEF Sound, Claims, Claim
<1>10. Exact'
    BY DEF Sound, Exact, Owners, Dropping
<1>11. Kept'
    BY <1>4, <1>5 DEF Sound, Kept
<1> QED BY <1>1, <1>2, <1>7, <1>8, <1>9, <1>10, <1>11 DEF Sound

LEMMA NextKeeps == IInv /\ Next => IInv'
<1> SUFFICES ASSUME IInv, Next, ~abused'
             PROVE  Sound'
    BY DEF IInv
<1>1. PICK h \in Handles :
        \/ ConstructNull(h) \/ MakeSharedNoArgs(h)
        \/ ConstructNullRaw(h) \/ ConstructNullCustom(h)
        \/ \E o \in Objects : \/ ConstructRaw(h, o) \/ ConstructRawThrows(h, o)
                              \/ ConstructCustom(h, o) \/ ConstructCustomThrows(h, o)
                              \/ WrapperThrows(h, o)
                              \/ MakeShared(h, o)
        \/ \E o \in Objects \cup {Null} : Reset(h, o)
        \/ \E g \in Handles : \/ CopyConstruct(h, g) \/ CopyAssign(h, g)
                              \/ MoveConstruct(h, g) \/ MoveAssign(h, g) \/ Swap(h, g)
        \/ Increment(h) \/ Destroy(h) \/ Release(h) \/ DestroyLast(h)
        \/ ResetSole(h) \/ ResetShared(h) \/ ResetThrows(h)
    BY DEF Next
<1>2. Default(h) \in Deleters /\ "default" \in Deleters /\ "custom" \in Deleters
    BY DEF Default, Deleters
<1>3. CASE ConstructNull(h)
    <2>1. ConstructEmpty(h, 0, "default") /\ ~abused
        BY <1>3 DEF ConstructNull, ConstructEmpty
    <2> QED BY <1>2, <2>1, ConstructEmptyKeeps DEF IInv
<1>4. CASE MakeSharedNoArgs(h)
    <2>1. ConstructEmpty(h, 0, "default") /\ ~abused
        BY <1>4 DEF MakeSharedNoArgs, ConstructNull, ConstructEmpty
    <2> QED BY <1>2, <2>1, ConstructEmptyKeeps DEF IInv
<1>5. CASE ConstructNullRaw(h)
    <2>1. ConstructEmpty(h, 1, Default(h)) /\ ~abused
        BY <1>5 DEF ConstructNullRaw, ConstructEmpty
    <2> QED BY <1>2, <2>1, ConstructEmptyKeeps DEF IInv
<1>6. CASE ConstructNullCustom(h)
    <2>1. ConstructEmpty(h, 0, "custom") /\ ~abused
        BY <1>6 DEF ConstructNullCustom, ConstructEmpty
    <2> QED BY <1>2, <2>1, ConstructEmptyKeeps DEF IInv
<1>7. ASSUME NEW o \in Objects, ConstructRaw(h, o)
      PROVE  Sound'
    <2>1. ConstructFrom(h, o, Default(h)) /\ ~abused
        BY <1>7 DEF ConstructRaw, ConstructFrom
    <2> QED BY <1>2, <2>1, ConstructFromKeeps DEF IInv
<1>8. ASSUME NEW o \in Objects, ConstructCustom(h, o)
      PROVE  Sound'
    <2>1. ConstructFrom(h, o, "custom") /\ ~abused
        BY <1>8 DEF ConstructCustom, ConstructFrom
    <2> QED BY <1>2, <2>1, ConstructFromKeeps DEF IInv
<1>9. ASSUME NEW o \in Objects, ConstructCustomThrows(h, o)
      PROVE  Sound'
    <2>1. ~abused
        BY <1>9 DEF ConstructCustomThrows
    <2> QED BY <1>9, <2>1, CustomThrowsKeeps DEF IInv
<1>10. ASSUME NEW o \in Objects, ConstructRawThrows(h, o) \/ WrapperThrows(h, o)
       PROVE  FALSE
    BY <1>10 DEF ConstructRawThrows, WrapperThrows
<1>11. ASSUME NEW o \in Objects, MakeShared(h, o)
       PROVE  Sound'
    <2>1. ~abused
        BY <1>11 DEF MakeShared
    <2> QED BY <1>11, <2>1, MakeSharedKeeps DEF IInv
<1>12. ASSUME NEW o \in Objects \cup {Null}, Reset(h, o)
       PROVE  Sound'
    <2>1. ~abused /\ ~CannotReset(h, o)
        BY <1>12 DEF Reset
    <2> QED BY <1>12, <2>1, ResetKeeps DEF IInv
<1>13. ASSUME NEW g \in Handles, CopyConstruct(h, g)
       PROVE  Sound'
    <2>1. /\ ReadFrom(h, g, "copy") /\ pc[h] = "dead" /\ ~abused
          /\ \A k \in Handles : src[k] # h
        BY <1>13 DEF CopyConstruct, Stillborn, ReadFrom
    <2> QED BY <2>1, ReadFromKeeps DEF IInv
<1>14. ASSUME NEW g \in Handles, CopyAssign(h, g)
       PROVE  Sound'
    <2>1. /\ ReadFrom(h, g, "assign") /\ pc[h] = "ready" /\ ~abused
          /\ \A k \in Handles : src[k] # h
        BY <1>14 DEF CopyAssign, Mine, Idle, ReadFrom
    <2> QED BY <2>1, ReadFromKeeps DEF IInv
<1>15. ASSUME NEW g \in Handles, MoveConstruct(h, g)
       PROVE  Sound'
    <2>1. ~abused
        BY <1>15 DEF MoveConstruct
    <2> QED BY <1>15, <2>1, MoveConstructKeeps DEF IInv
<1>16. ASSUME NEW g \in Handles, MoveAssign(h, g)
       PROVE  Sound'
    <2>1. ~abused
        BY <1>16 DEF MoveAssign
    <2>2. CASE h = g
        BY <1>16, <2>1, <2>2, MoveAssignToSelfKeeps DEF IInv
    <2>3. CASE h # g
        BY <1>16, <2>1, <2>3, MoveAssignKeeps DEF IInv
    <2> QED BY <2>2, <2>3
<1>17. ASSUME NEW g \in Handles, Swap(h, g)
       PROVE  Sound'
    <2>1. ~abused
        BY <1>17 DEF Swap
    <2> QED BY <1>17, <2>1, SwapKeeps DEF IInv
<1>18. CASE Increment(h)
    <2>1. ~abused
        BY <1>18 DEF Increment
    <2> QED BY <1>18, <2>1, IncrementKeeps DEF IInv
<1>19. CASE Destroy(h)
    <2>1. ~abused
        BY <1>19 DEF Destroy
    <2> QED BY <1>19, <2>1, DestroyKeeps DEF IInv
<1>20. CASE Release(h)
    <2>1. ~abused
        BY <1>20 DEF Release
    <2> QED BY <1>20, <2>1, ReleaseKeeps DEF IInv
<1>21. CASE DestroyLast(h)
    <2>1. ~abused
        BY <1>21 DEF DestroyLast
    <2> QED BY <1>21, <2>1, DestroyLastKeeps DEF IInv
<1>22. CASE ResetSole(h)
    <2>1. ~abused
        BY <1>22 DEF ResetSole
    <2> QED BY <1>22, <2>1, ResetSoleKeeps DEF IInv
<1>23. CASE ResetShared(h)
    <2>1. ~abused
        BY <1>23 DEF ResetShared
    <2> QED BY <1>23, <2>1, ResetSharedKeeps DEF IInv
<1>24. CASE ResetThrows(h)
    BY <1>24 DEF ResetThrows
<1> QED BY <1>1, <1>3, <1>4, <1>5, <1>6, <1>7, <1>8, <1>9, <1>10, <1>11, <1>12, <1>13, <1>14,
           <1>15, <1>16, <1>17, <1>18, <1>19, <1>20, <1>21, <1>22, <1>23, <1>24

-----------------------------------------------------------------------------
(* Types, which no call breaks, abused or not *)

LEMMA NewBlockTyped ==
    ASSUME TypeOK, NEW h \in Handles, NEW b \in Blocks, NEW n \in {0, 1}, NEW d \in Deleters,
           NEW o \in Objects \cup {Null}, NEW m \in BOOLEAN, NewBlock(b, n, d, o, m)
    PROVE  block' \in [Blocks -> ControlBlocks]
<1>1. n \in 0..(CountMod - 1)
    BY MoreThanOne
<1>2. [state |-> "live", count |-> n, deleter |-> d, m_object |-> o, managed |-> m] \in ControlBlocks
    BY <1>1 DEF ControlBlocks
<1> QED BY <1>2 DEF NewBlock, TypeOK

LEMMA BecomeTyped ==
    ASSUME TypeOK, NEW h \in Handles, NEW ptr \in Pointers,
           NEW where \in {"dead", "ready", "copy", "assign", "release", "last",
                          "reset sole", "reset shared"},
           Become(h, ptr, where)
    PROVE  /\ pc' \in [Handles -> {"dead", "ready", "copy", "assign", "release", "last",
                                   "reset sole", "reset shared"}]
           /\ raw' \in [Handles -> Objects \cup {Null}] /\ cb' \in [Handles -> Blocks \cup {Null}]
<1>1. ptr.raw \in Objects \cup {Null} /\ ptr.cb \in Blocks \cup {Null}
    BY DEF Pointers
<1> QED BY <1>1 DEF Become, TypeOK

LEMMA FinishTyped ==
    ASSUME TypeOK, NEW h \in Handles, Finish(h)
    PROVE  /\ pc' \in [Handles -> {"dead", "ready", "copy", "assign", "release", "last",
                                   "reset sole", "reset shared"}]
           /\ then' \in [Handles -> {"dead", "ready"}] /\ tmp' \in [Handles -> Pointers]
<1>1. NoPtr \in Pointers
    BY DEF NoPtr, Pointers
<1>2. then[h] \in {"dead", "ready"}
    BY DEF TypeOK
<1> QED BY <1>1, <1>2 DEF Finish, TypeOK

LEMMA CountTyped ==
    ASSUME TypeOK, NEW b \in Blocks \cup {Null},
           \/ block' = [block EXCEPT ![b].count = Incremented(@)]
           \/ block' = [block EXCEPT ![b].count = Decremented(@)]
    PROVE  block' \in [Blocks -> ControlBlocks]
<1>1. CASE b \in Blocks
    <2>1. block[b].count \in 0..(CountMod - 1)
        BY <1>1 DEF TypeOK, ControlBlocks
    <2>2. /\ Incremented(block[b].count) \in 0..(CountMod - 1)
          /\ Decremented(block[b].count) \in 0..(CountMod - 1)
        BY <2>1, Arithmetic
    <2>3. PICK n \in 0..(CountMod - 1) : block' = [block EXCEPT ![b].count = n]
        BY <2>2
    <2> QED BY <1>1, <2>3, CountStep
<1>2. CASE b = Null
    <2>1. b \notin Blocks
        BY <1>2, NullAssumption
    <2> QED BY <2>1 DEF TypeOK
<1> QED BY <1>1, <1>2

LEMMA ConstructTyped ==
    ASSUME TypeOK, NEW h \in Handles,
           \/ \E n \in {0, 1}, d \in Deleters : ConstructEmpty(h, n, d)
           \/ \E o \in Objects, d \in Deleters : ConstructFrom(h, o, d)
           \/ \E o \in Objects : MakeShared(h, o)
           \/ \E o \in Objects : ConstructCustomThrows(h, o) \/ ConstructRawThrows(h, o) \/ WrapperThrows(h, o)
    PROVE  TypeOK'
<1>1. "default" \in Deleters /\ "custom" \in Deleters /\ "inside block" \in Deleters
      /\ Default(h) \in Deleters
    BY DEF Default, Deleters
<1>2. \A o \in Objects, d \in Deleters : Born(o, d) => object' \in [Objects -> ManagedObjects]
    BY BornTyped DEF TypeOK
<1>3. ASSUME NEW n \in {0, 1}, NEW d \in Deleters, ConstructEmpty(h, n, d)
      PROVE  TypeOK'
    <2>1. PICK b \in Blocks : /\ NewBlock(b, n, d, Null, FALSE)
                              /\ Become(h, [raw |-> Null, cb |-> b], "ready")
        BY <1>3 DEF ConstructEmpty
    <2>2. block' \in [Blocks -> ControlBlocks]
        BY <2>1, NewBlockTyped
    <2>3. [raw |-> Null, cb |-> b] \in Pointers
        BY DEF Pointers
    <2>4. /\ pc' \in [Handles -> {"dead", "ready", "copy", "assign", "release", "last",
                                  "reset sole", "reset shared"}]
          /\ raw' \in [Handles -> Objects \cup {Null}] /\ cb' \in [Handles -> Blocks \cup {Null}]
        BY <2>1, <2>3, BecomeTyped
    <2>5. UNCHANGED <<tmp, src, then, object, fault, abused>>
        BY <1>3 DEF ConstructEmpty
    <2> QED BY <2>2, <2>4, <2>5 DEF TypeOK
<1>4. ASSUME NEW o \in Objects, NEW s \in {Null, o}, NEW d \in Deleters, NEW e \in Deleters,
             NEW b \in Blocks, Born(o, e), NewBlock(b, 1, d, s, TRUE),
             Become(h, [raw |-> o, cb |-> b], "ready"), UNCHANGED <<tmp, src, then, fault, abused>>
      PROVE  TypeOK'
    <2>1. block' \in [Blocks -> ControlBlocks]
        BY <1>4, NewBlockTyped
    <2>2. [raw |-> o, cb |-> b] \in Pointers
        BY DEF Pointers
    <2>3. /\ pc' \in [Handles -> {"dead", "ready", "copy", "assign", "release", "last",
                                  "reset sole", "reset shared"}]
          /\ raw' \in [Handles -> Objects \cup {Null}] /\ cb' \in [Handles -> Blocks \cup {Null}]
        BY <1>4, <2>2, BecomeTyped
    <2>4. object' \in [Objects -> ManagedObjects]
        BY <1>2, <1>4
    <2> QED BY <1>4, <2>1, <2>3, <2>4 DEF TypeOK
<1>5. ASSUME NEW o \in Objects, NEW d \in Deleters, ConstructFrom(h, o, d)
      PROVE  TypeOK'
    <2>1. PICK b \in Blocks : /\ NewBlock(b, 1, d, Null, TRUE)
                              /\ Become(h, [raw |-> o, cb |-> b], "ready")
        BY <1>5 DEF ConstructFrom
    <2>2. Born(o, d) /\ UNCHANGED <<tmp, src, then, fault, abused>>
        BY <1>5 DEF ConstructFrom
    <2> QED BY <1>4, <2>1, <2>2
<1>6. ASSUME NEW o \in Objects, MakeShared(h, o)
      PROVE  TypeOK'
    <2>1. PICK b \in Blocks : /\ NewBlock(b, 1, "default", o, TRUE)
                              /\ Become(h, [raw |-> o, cb |-> b], "ready")
        BY <1>6 DEF MakeShared
    <2>2. Born(o, "inside block") /\ UNCHANGED <<tmp, src, then, fault, abused>>
        BY <1>6 DEF MakeShared
    <2> QED BY <1>1, <1>4, <2>1, <2>2
<1>7. ASSUME NEW o \in Objects, NEW d \in Deleters,
             object' = [object EXCEPT ![o] = [state |-> "destroyed", deleter |-> d]]
      PROVE  object' \in [Objects -> ManagedObjects]
    <2>1. [state |-> "destroyed", deleter |-> d] \in ManagedObjects
        BY DEF ManagedObjects
    <2> QED BY <1>7, <2>1 DEF TypeOK
<1>8. ASSUME NEW o \in Objects, ConstructCustomThrows(h, o)
      PROVE  TypeOK'
    <2>1. object' \in [Objects -> ManagedObjects]
        BY <1>1, <1>7, <1>8 DEF ConstructCustomThrows
    <2> QED BY <1>8, <2>1 DEF ConstructCustomThrows, handle, TypeOK
<1>9. ASSUME NEW o \in Objects, WrapperThrows(h, o)
      PROVE  TypeOK'
    <2>1. object' \in [Objects -> ManagedObjects]
        BY <1>1, <1>2, <1>9 DEF WrapperThrows
    <2> QED BY <1>9, <2>1 DEF WrapperThrows, handle, TypeOK
<1>10. ASSUME NEW o \in Objects, ConstructRawThrows(h, o)
       PROVE  TypeOK'
    <2>1. object' \in [Objects -> ManagedObjects]
        BY <1>1, <1>7, <1>10 DEF ConstructRawThrows
    <2> QED BY <1>10, <2>1 DEF ConstructRawThrows, handle, TypeOK
<1> QED BY <1>3, <1>5, <1>6, <1>8, <1>9, <1>10

LEMMA CopyAndMoveTyped ==
    ASSUME TypeOK, NEW h \in Handles, NEW g \in Handles,
           \/ CopyConstruct(h, g) \/ CopyAssign(h, g)
           \/ MoveConstruct(h, g) \/ MoveAssign(h, g) \/ Swap(h, g)
    PROVE  TypeOK'
<1>1. NoPtr \in Pointers /\ Ptr(h) \in Pointers /\ Ptr(g) \in Pointers
    BY DEF NoPtr, Ptr, Pointers, TypeOK
<1>2. CASE CopyConstruct(h, g)
    BY <1>1, <1>2 DEF CopyConstruct, ReadFrom, heap, TypeOK
<1>3. CASE CopyAssign(h, g)
    BY <1>1, <1>3 DEF CopyAssign, ReadFrom, heap, TypeOK
<1>4. CASE MoveConstruct(h, g)
    BY <1>4 DEF MoveConstruct, Emptied, heap, TypeOK
<1>5. CASE MoveAssign(h, g)
    BY <1>1, <1>5 DEF MoveAssign, Emptied, heap, TypeOK
<1>6. CASE Swap(h, g)
    BY <1>6 DEF Swap, heap, TypeOK
<1> QED BY <1>2, <1>3, <1>4, <1>5, <1>6

LEMMA IncrementTyped ==
    ASSUME TypeOK, NEW h \in Handles, Increment(h)
    PROVE  TypeOK'
<1>1. PICK b \in Blocks \cup {Null} : b = tmp[h].cb
    BY DEF TypeOK, Pointers
<1>2. \/ block' = block /\ fault' = fault
      \/ block' = [block EXCEPT ![b].count = Incremented(@)] /\ fault' = fault
      \/ block' = block /\ fault' = "use after free"
    BY <1>1 DEF Increment
<1>3. block' \in [Blocks -> ControlBlocks]
    BY <1>2, CountTyped DEF TypeOK
<1>4. tmp[h] \in Pointers /\ NoPtr \in Pointers /\ Ptr(h) \in Pointers
    BY DEF NoPtr, Ptr, Pointers, TypeOK
<1>5. /\ pc' \in [Handles -> {"dead", "ready", "copy", "assign", "release", "last",
                              "reset sole", "reset shared"}]
      /\ raw' \in [Handles -> Objects \cup {Null}] /\ cb' \in [Handles -> Blocks \cup {Null}]
    <2>1. Become(h, tmp[h], IF pc[h] = "copy" THEN "ready" ELSE "release")
        BY DEF Increment
    <2> QED BY <1>4, <2>1, BecomeTyped
<1>6. /\ tmp' = [tmp EXCEPT ![h] = IF pc[h] = "copy" THEN NoPtr ELSE Ptr(h)]
      /\ then' = [then EXCEPT ![h] = IF pc[h] = "copy" THEN "dead" ELSE "ready"]
      /\ src' = [src EXCEPT ![h] = Null]
      /\ UNCHANGED <<object, abused>>
    BY DEF Increment
<1>7. tmp' \in [Handles -> Pointers] /\ then' \in [Handles -> {"dead", "ready"}]
      /\ src' \in [Handles -> Handles \cup {Null}]
    BY <1>4, <1>6 DEF TypeOK
<1>8. fault' \in {"none", "null control block", "use after free", "destroyed twice",
                  "invalid free", "wrong deleter", "dangling deleter"}
    BY <1>2 DEF TypeOK
<1> QED BY <1>3, <1>5, <1>6, <1>7, <1>8 DEF TypeOK

LEMMA ReleaseTyped ==
    ASSUME TypeOK, NEW h \in Handles, Destroy(h) \/ Release(h)
    PROVE  TypeOK'
<1>1. NoPtr \in Pointers /\ Ptr(h) \in Pointers
    BY DEF NoPtr, Ptr, Pointers, TypeOK
<1>2. CASE Destroy(h)
    <2>1. /\ pc' \in [Handles -> {"dead", "ready", "copy", "assign", "release", "last",
                                  "reset sole", "reset shared"}]
          /\ raw' \in [Handles -> Objects \cup {Null}] /\ cb' \in [Handles -> Blocks \cup {Null}]
        BY <1>1, <1>2, BecomeTyped DEF Destroy
    <2> QED BY <1>1, <1>2, <2>1 DEF Destroy, heap, TypeOK
<1>3. CASE Release(h)
    <2>1. PICK b \in Blocks \cup {Null} : b = tmp[h].cb
        BY DEF TypeOK, Pointers
    <2>2. \/ block' = block
          \/ block' = [block EXCEPT ![b].count = Decremented(@)]
        BY <1>3, <2>1 DEF Release
    <2>3. block' \in [Blocks -> ControlBlocks]
        BY <2>2, CountTyped DEF TypeOK
    <2>4. \/ Finish(h)
          \/ pc' \in {pc, [pc EXCEPT ![h] = "last"]} /\ UNCHANGED <<then, tmp>>
        BY <1>3 DEF Release
    <2>5. /\ pc' \in [Handles -> {"dead", "ready", "copy", "assign", "release", "last",
                                  "reset sole", "reset shared"}]
          /\ then' \in [Handles -> {"dead", "ready"}] /\ tmp' \in [Handles -> Pointers]
        <3>1. CASE Finish(h)
            BY <3>1, FinishTyped
        <3>2. CASE pc' \in {pc, [pc EXCEPT ![h] = "last"]} /\ UNCHANGED <<then, tmp>>
            BY <3>2 DEF TypeOK
        <3> QED BY <2>4, <3>1, <3>2
    <2>6. fault' \in {fault, "use after free"} /\ UNCHANGED <<raw, cb, src, object, abused>>
        BY <1>3 DEF Release
    <2> QED BY <2>3, <2>5, <2>6 DEF TypeOK
<1> QED BY <1>2, <1>3

LEMMA DestroyFaultTyped ==
    ASSUME NEW o, NEW d
    PROVE  DestroyFault(o, d) \in {"none", "null control block", "use after free", "destroyed twice",
                                   "invalid free", "wrong deleter", "dangling deleter"}
BY DEF DestroyFault

LEMMA DestroyedAnyTyped ==
    ASSUME TypeOK, NEW o
    PROVE  Destroyed(o) \in [Objects -> ManagedObjects]
<1>1. CASE o \in Objects
    BY <1>1, DestroyedTyped DEF TypeOK
<1>2. CASE o \notin Objects
    BY <1>2 DEF Destroyed, TypeOK
<1> QED BY <1>1, <1>2

LEMMA DestroyLastTyped ==
    ASSUME TypeOK, NEW h \in Handles, DestroyLast(h)
    PROVE  TypeOK'
<1>1. PICK b \in Blocks \cup {Null} : b = tmp[h].cb
    BY DEF TypeOK, Pointers
<1>2. PICK o, d : object' = Destroyed(o) /\ fault' = DestroyFault(o, d)
    BY DEF DestroyLast
<1>3. /\ block' = [block EXCEPT ![b].state = "deleted"] /\ Finish(h)
      /\ UNCHANGED <<raw, cb, src>> /\ abused' \in BOOLEAN
    BY <1>1 DEF DestroyLast, TypeOK
<1>4. object' \in [Objects -> ManagedObjects]
    BY <1>2, DestroyedAnyTyped
<1>5. block' \in [Blocks -> ControlBlocks]
    <2>1. CASE b \in Blocks
        <3>1. block[b] \in ControlBlocks
            BY <2>1 DEF TypeOK
        <3>2. [block[b] EXCEPT !.state = "deleted"] \in ControlBlocks
            BY <3>1 DEF ControlBlocks
        <3> QED BY <1>3, <2>1, <3>2 DEF TypeOK
    <2>2. CASE b = Null
        <3>1. b \notin Blocks
            BY <2>2, NullAssumption
        <3> QED BY <1>3, <3>1 DEF TypeOK
    <2> QED BY <2>1, <2>2
<1>6. fault' \in {"none", "null control block", "use after free", "destroyed twice",
                  "invalid free", "wrong deleter", "dangling deleter"}
    BY <1>2, DestroyFaultTyped
<1>7. /\ pc' \in [Handles -> {"dead", "ready", "copy", "assign", "release", "last",
                              "reset sole", "reset shared"}]
      /\ then' \in [Handles -> {"dead", "ready"}] /\ tmp' \in [Handles -> Pointers]
    BY <1>3, FinishTyped
<1> QED BY <1>3, <1>4, <1>5, <1>6, <1>7 DEF TypeOK

LEMMA ResetTyped ==
    ASSUME TypeOK, NEW h \in Handles, NEW o \in Objects \cup {Null}, Reset(h, o)
    PROVE  TypeOK'
<1>1. PICK b \in Blocks \cup {Null} : b = cb[h]
    BY DEF TypeOK
<1>2. Default(h) \in Deleters
    BY DEF Default, Deleters
<1>3. object' \in [Objects -> ManagedObjects]
    <2>1. object' = object \/ (o \in Objects /\ Born(o, Default(h)))
        BY DEF Reset
    <2> QED BY <1>2, <2>1, BornTyped DEF TypeOK
<1>4. tmp' \in [Handles -> Pointers]
    <2>1. [raw |-> o, cb |-> Null] \in Pointers
        BY DEF Pointers
    <2>2. tmp' = [tmp EXCEPT ![h] = [raw |-> o, cb |-> Null]]
        BY DEF Reset
    <2> QED BY <2>1, <2>2 DEF TypeOK
<1>5. \/ block' = block
      \/ block' = [block EXCEPT ![b].count = Decremented(@)]
    BY <1>1 DEF Reset
<1>6. block' \in [Blocks -> ControlBlocks]
    BY <1>5, CountTyped DEF TypeOK
<1>7. pc' \in {pc, [pc EXCEPT ![h] = "reset sole"], [pc EXCEPT ![h] = "reset shared"]}
    BY DEF Reset
<1>8. fault' \in {fault, "null control block", "use after free"}
    BY DEF Reset
<1>9. abused' \in BOOLEAN
    <2>1. abused' = (abused \/ CannotReset(h, o))
        BY DEF Reset
    <2> QED BY <2>1
<1>10. UNCHANGED <<raw, cb, src, then>>
    BY DEF Reset
<1> QED BY <1>3, <1>4, <1>6, <1>7, <1>8, <1>9, <1>10 DEF TypeOK

LEMMA ResetSoleTyped ==
    ASSUME TypeOK, NEW h \in Handles, ResetSole(h)
    PROVE  TypeOK'
<1>1. PICK b \in Blocks \cup {Null} : b = cb[h]
    BY DEF TypeOK
<1>2. \/ object' = object /\ fault' \in {fault, "dangling deleter"}
      \/ object' = Destroyed(raw[h]) /\ fault' = DestroyFault(raw[h], block[b].deleter)
    BY <1>1 DEF ResetSole
<1>3. object' \in [Objects -> ManagedObjects]
    <2>1. CASE object' = object
        BY <2>1 DEF TypeOK
    <2>2. CASE object' = Destroyed(raw[h])
        BY <2>2, DestroyedAnyTyped
    <2> QED BY <1>2, <2>1, <2>2
<1>4. fault' \in {"none", "null control block", "use after free", "destroyed twice",
                  "invalid free", "wrong deleter", "dangling deleter"}
    BY <1>2, DestroyFaultTyped DEF TypeOK
<1>5. PICK m \in BOOLEAN : block' = [block EXCEPT ![b].count = 1, ![b].managed = m]
    <2>1. (tmp[h].raw # Null) \in BOOLEAN
        OBVIOUS
    <2> QED BY <1>1, <2>1 DEF ResetSole, StoreOne
<1>6. block' \in [Blocks -> ControlBlocks]
    <2>1. CASE b \in Blocks
        <3>1. 1 \in 0..(CountMod - 1)
            BY MoreThanOne
        <3>2. block[b] \in ControlBlocks
            BY <2>1 DEF TypeOK
        <3>3. [block[b] EXCEPT !.count = 1, !.managed = m] \in ControlBlocks
            BY <3>1, <3>2 DEF ControlBlocks
        <3>4. block' = [block EXCEPT ![b] = [block[b] EXCEPT !.count = 1, !.managed = m]]
            BY <1>5, <2>1 DEF TypeOK
        <3> QED BY <2>1, <3>3, <3>4 DEF TypeOK
    <2>2. CASE b = Null
        <3>1. b \notin Blocks
            BY <2>2, NullAssumption
        <3> QED BY <1>5, <3>1 DEF TypeOK
    <2> QED BY <2>1, <2>2
<1>7. tmp[h].raw \in Objects \cup {Null} /\ cb[h] \in Blocks \cup {Null} /\ NoPtr \in Pointers
    BY DEF NoPtr, Pointers, TypeOK
<1>8. [raw |-> tmp[h].raw, cb |-> cb[h]] \in Pointers
    BY <1>7 DEF Pointers
<1>9. /\ pc' \in [Handles -> {"dead", "ready", "copy", "assign", "release", "last",
                              "reset sole", "reset shared"}]
      /\ raw' \in [Handles -> Objects \cup {Null}] /\ cb' \in [Handles -> Blocks \cup {Null}]
    BY <1>8, BecomeTyped DEF ResetSole
<1>10. tmp' = [tmp EXCEPT ![h] = NoPtr] /\ UNCHANGED <<src, then, abused>>
    BY DEF ResetSole
<1> QED BY <1>3, <1>4, <1>6, <1>7, <1>9, <1>10 DEF TypeOK

LEMMA ResetSharedTyped ==
    ASSUME TypeOK, NEW h \in Handles, ResetShared(h) \/ ResetThrows(h)
    PROVE  TypeOK'
<1>1. tmp[h].raw \in Objects \cup {Null} /\ NoPtr \in Pointers
    BY DEF NoPtr, Pointers, TypeOK
<1>2. CASE ResetThrows(h)
    BY <1>1, <1>2 DEF ResetThrows, heap, TypeOK
<1>3. CASE ResetShared(h)
    <2>0. PICK m \in BOOLEAN : m = (tmp[h].raw # Null)
        OBVIOUS
    <2>1. PICK b \in Blocks : /\ NewBlock(b, 1, Default(h), Null, m)
                              /\ Become(h, [raw |-> tmp[h].raw, cb |-> b], "ready")
        BY <1>3, <2>0 DEF ResetShared
    <2>2. Default(h) \in Deleters
        BY DEF Default, Deleters
    <2>3. block' \in [Blocks -> ControlBlocks]
        BY <2>1, <2>2, NewBlockTyped
    <2>4. [raw |-> tmp[h].raw, cb |-> b] \in Pointers
        BY <1>1 DEF Pointers
    <2>5. /\ pc' \in [Handles -> {"dead", "ready", "copy", "assign", "release", "last",
                                  "reset sole", "reset shared"}]
          /\ raw' \in [Handles -> Objects \cup {Null}] /\ cb' \in [Handles -> Blocks \cup {Null}]
        BY <2>1, <2>4, BecomeTyped
    <2>6. tmp' = [tmp EXCEPT ![h] = NoPtr] /\ UNCHANGED <<src, then, object, fault, abused>>
        BY <1>3 DEF ResetShared
    <2> QED BY <1>1, <2>3, <2>5, <2>6 DEF TypeOK
<1> QED BY <1>2, <1>3

LEMMA NextTyped == TypeOK /\ [Next]_vars => TypeOK'
<1> SUFFICES ASSUME TypeOK, [Next]_vars
             PROVE  TypeOK'
    OBVIOUS
<1>1. CASE UNCHANGED vars
    BY <1>1 DEF vars, handle, heap, TypeOK
<1>2. ASSUME NEW h \in Handles,
             \/ ConstructNull(h) \/ MakeSharedNoArgs(h)
             \/ ConstructNullRaw(h) \/ ConstructNullCustom(h)
      PROVE  TypeOK'
    <2>1. Default(h) \in Deleters /\ "default" \in Deleters /\ "custom" \in Deleters
        BY DEF Default, Deleters
    <2>2. \E n \in {0, 1}, d \in Deleters : ConstructEmpty(h, n, d)
        BY <1>2, <2>1 DEF ConstructNull, MakeSharedNoArgs, ConstructNullRaw, ConstructNullCustom
    <2> QED BY <2>2, ConstructTyped
<1>3. ASSUME NEW h \in Handles, NEW o \in Objects, ConstructRaw(h, o) \/ ConstructCustom(h, o)
      PROVE  TypeOK'
    <2>1. Default(h) \in Deleters /\ "custom" \in Deleters
        BY DEF Default, Deleters
    <2>2. \E d \in Deleters : ConstructFrom(h, o, d)
        BY <1>3, <2>1 DEF ConstructRaw, ConstructCustom
    <2> QED BY <2>2, ConstructTyped
<1>4. ASSUME NEW h \in Handles, NEW o \in Objects,
             \/ ConstructRawThrows(h, o) \/ ConstructCustomThrows(h, o)
             \/ WrapperThrows(h, o) \/ MakeShared(h, o)
      PROVE  TypeOK'
    BY <1>4, ConstructTyped
<1>5. CASE Next
    BY <1>2, <1>3, <1>4, <1>5, ResetTyped, CopyAndMoveTyped, IncrementTyped, ReleaseTyped,
       DestroyLastTyped, ResetSoleTyped, ResetSharedTyped DEF Next
<1> QED BY <1>1, <1>5

-----------------------------------------------------------------------------
(* Theorems *)

\* The inductive invariant holds in every reachable state.
THEOREM Invariance == Spec => []IInv
<1>1. IInv /\ [Next]_vars => IInv'
    BY NextKeeps, StutterKeeps
<1> QED BY <1>1, InitEstablishes, PTL DEF Spec

\* Every variable keeps its type, also in the behaviours where clients have made a call that
\* abused names: no count leaves its width, no pointer leads to what was never a handle's.
THEOREM TypeCorrect == Spec => []TypeOK
BY InitTyped, NextTyped, PTL DEF Spec

\* The atomic count of every live block that somebody has an object through is the number of
\* its shared_ptrs, temporaries included, at every moment: increment and release_shared
\* never lose or repeat one, and the counter never wraps.
THEOREM CountIsExact == Spec => []CountIsOwners
<1>1. IInv => CountIsOwners
    <2> SUFFICES ASSUME Sound, NEW b \in Blocks, block[b].state = "live", Holding(b) # {}
                 PROVE  block[b].count = Cardinality(Owners(b)) + Cardinality(Dropping(b))
        BY DEF IInv, CountIsOwners
    <2>1. ASSUME NEW o \in Objects, Used(b, o)
          PROVE  block[b].managed
        BY <2>1 DEF Sound, Agree
    <2>2. block[b].managed
        <3>1. PICK h \in Handles : \/ cb[h] = b /\ raw[h] # Null /\ pc[h] # "reset shared"
                                   \/ h \in Dropping(b)
            BY DEF Holding, Owners, Dropping
        <3>3. CASE cb[h] = b /\ raw[h] # Null /\ pc[h] # "reset shared"
            <4>1. PICK o \in Objects : o = raw[h]
                BY <3>3 DEF Sound, TypeOK
            <4>2. Used(b, o)
                BY <3>3, <4>1 DEF Used, Uses, Main
            <4> QED BY <2>1, <4>2
        <3>4. CASE h \in Dropping(b)
            <4>1. PICK o \in Objects : Uses(h, b, o)
                BY <3>4, CountedUses
            <4>2. Used(b, o)
                BY <4>1 DEF Used
            <4> QED BY <2>1, <4>2
        <3> QED BY <3>1, <3>3, <3>4
    <2> QED BY <2>2 DEF Sound, Exact
<1> QED BY <1>1, Invariance, PTL

\* A shared_ptr that points to an object points to a living one, through a live block.
THEOREM NothingDangles == Spec => []NoDangling
<1>1. IInv => NoDangling
    <2> SUFFICES ASSUME Sound, NEW h \in Handles, pc[h] \in {"ready", "copy", "assign"},
                        raw[h] # Null
                 PROVE  object[raw[h]].state = "alive" /\ block[cb[h]].state = "live"
        BY DEF IInv, NoDangling
    <2>1. raw[h] \in Objects /\ cb[h] \in Blocks \cup {Null}
        BY DEF Sound, TypeOK
    <2>2. Used(cb[h], raw[h])
        BY DEF Used, Uses, Main
    <2> QED BY <2>1, <2>2 DEF Sound, Agree
<1> QED BY <1>1, Invariance, PTL

\* Outside the places that abused names, the call of a client's deleter among them, nothing
\* this class does is undefined: every object is destroyed once and by its own deleter, every
\* block is used before its deletion only.
THEOREM NothingUndefined == Spec => []DefinedUnlessAbused
<1>1. IInv => DefinedUnlessAbused
    BY DEF IInv, Sound, DefinedUnlessAbused
<1> QED BY <1>1, Invariance, PTL

\* When the last handle is gone, so are all objects and every block that managed one to the
\* end; those that a null pointer was left in by a constructor or by reset stay.
THEOREM NothingLeaks == Spec => []NothingLeft
<1>1. IInv => NothingLeft
    <2> SUFFICES ASSUME Sound, \A h \in Handles : pc[h] = "dead"
                 PROVE  /\ \A o \in Objects : object[o].state # "alive"
                        /\ \A b \in Blocks : block[b].state = "live" => ~block[b].managed
        BY DEF IInv, NothingLeft
    <2>1. \A b \in Blocks, o \in Objects : ~Used(b, o)
        BY NullAssumption DEF Sound, Shape, ShapeOf, Used, Uses, Main, Temp
    <2>2. \A h \in Handles, o \in Objects : ~Pending(h, o)
        BY DEF Pending
    <2> QED BY <2>1, <2>2 DEF Sound, Kept
<1> QED BY <1>1, Invariance, PTL
=============================================================================
