------------------------- MODULE SanitizationProofs -------------------------
(***************************************************************************)
(* Theorems about Sanitization, for all texts, alphabets and lengths.  The *)
(* invariant says what the part of the key that is made and the part of    *)
(* the text that is left have to do with the text: together they are the   *)
(* text if it is a key, and if they show nothing but whitespace there is   *)
(* nothing else in it.                                                     *)
(***************************************************************************)
EXTENDS Sanitization, SequenceTheorems, FiniteSetTheorems, TLAPS

Blank(s) == \A i \in 1 .. Len(s) : s[i] \in Whitespace

IsKey(s) == Len(s) <= MaxLength /\ \A i \in 1 .. Len(s) : s[i] \in Legal

\* The text is the key so far and what the loop has not looked at.
Split ==
  /\ Len(legal_key) + Len(input_key) = Len(documentHandle)
  /\ \A i \in 1 .. Len(legal_key) : legal_key[i] = documentHandle[i]
  /\ \A i \in 1 .. Len(input_key) : input_key[i] = documentHandle[Len(legal_key) + i]

BlankInv == legal_key = <<>> /\ Blank(input_key) => Blank(documentHandle)

TrimInv == pc \in {"ltrim", "rtrim"} => legal_key = <<>>

KeyInv == IsKey(documentHandle) => Split

DoneInv ==
  pc = "done" =>
    /\ Len(legal_key) <= MaxLength
    /\ legal_key = <<>> => Blank(documentHandle)
    /\ IsKey(documentHandle) => legal_key = documentHandle

IInv ==
  /\ TypeOK
  /\ TrimInv
  /\ pc # "done" => BlankInv /\ KeyInv
  /\ DoneInv
  /\ again => IsKey(documentHandle)

\* A legal character is no whitespace and may stand anywhere.
LEMMA LegalIsSolid == \A c \in Legal : c \in Characters /\ c \notin Whitespace
BY SanitizationAssumption DEF Characters

\* A key is a text.
LEMMA KeyIsText == Seq(Legal) \subseteq Seq(Characters)
BY SanitizationAssumption DEF Characters

\* What is left of a text without its first character.
LEMMA WithoutFirst ==
  ASSUME NEW s \in Seq(Characters), s # <<>>
  PROVE  /\ Tail(s) \in Seq(Characters) /\ Len(s) \in Nat \ {0}
         /\ Len(Tail(s)) = Len(s) - 1
         /\ \A i \in 1 .. Len(s) - 1 : Tail(s)[i] = s[i + 1]
<1>1. Len(s) \in Nat \ {0}
  OBVIOUS
<1> QED
  BY <1>1, HeadTailProperties

\* What is left of a text without its last character.
LEMMA WithoutLast ==
  ASSUME NEW s \in Seq(Characters), s # <<>>
  PROVE  /\ SubSeq(s, 1, Len(s) - 1) \in Seq(Characters) /\ Len(s) \in Nat \ {0}
         /\ Len(SubSeq(s, 1, Len(s) - 1)) = Len(s) - 1
         /\ \A i \in 1 .. Len(s) - 1 : SubSeq(s, 1, Len(s) - 1)[i] = s[i]
<1> DEFINE n == Len(s) - 1
<1>1. Len(s) \in Nat \ {0} /\ n \in Nat /\ \A i \in 1 .. n : s[i] \in Characters
  OBVIOUS
<1>2. /\ SubSeq(s, 1, n) \in Seq(Characters)
      /\ Len(SubSeq(s, 1, n)) = IF 1 <= n THEN n - 1 + 1 ELSE 0
      /\ \A i \in 1 .. n - 1 + 1 : SubSeq(s, 1, n)[i] = s[1 + i - 1]
  BY <1>1, SubSeqProperties
<1> HIDE DEF n
<1>3. Len(SubSeq(s, 1, n)) = n
  BY <1>1, <1>2
<1>4. \A i \in 1 .. n : SubSeq(s, 1, n)[i] = s[i]
  <2> SUFFICES ASSUME NEW i \in 1 .. n PROVE SubSeq(s, 1, n)[i] = s[i]
    OBVIOUS
  <2>1. i \in 1 .. n - 1 + 1 /\ 1 + i - 1 = i
    BY <1>1
  <2> QED
    BY <1>2, <2>1
<1> QED
  BY <1>1, <1>2, <1>3, <1>4 DEF n

\* The loop starts in the invariant: nothing is made, everything is left.
LEMMA InvInit == Init => IInv
<1> SUFFICES ASSUME Init PROVE IInv
  OBVIOUS
<1>1. TypeOK
  <2>1. documentHandle \in Seq(Characters) /\ input_key \in Seq(Characters)
    BY SanitizationAssumption DEF Init
  <2>2. legal_key \in Seq(Legal)
    BY DEF Init
  <2> QED
    BY <2>1, <2>2 DEF Init, TypeOK
<1>2. Split /\ BlankInv
  BY <1>1 DEF Init, Split, BlankInv, TypeOK
<1> QED
  BY <1>1, <1>2 DEF Init, IInv, TrimInv, KeyInv, DoneInv

\* Whitespace taken off either end leaves the invariant: there is none in a key.
LEMMA InvTrim == IInv /\ (TrimLeft \/ TrimRight) => IInv'
<1> SUFFICES ASSUME IInv, TrimLeft \/ TrimRight PROVE IInv'
  OBVIOUS
<1> DEFINE n == Len(input_key)
<1>0. /\ documentHandle \in Seq(Characters) /\ input_key \in Seq(Characters)
      /\ legal_key = <<>> /\ pc # "done" /\ BlankInv /\ KeyInv
      /\ UNCHANGED <<documentHandle, legal_key, first, again>> /\ pc' # "done"
  BY DEF IInv, TypeOK, TrimInv, TrimLeft, TrimRight, Trims
<1>1. CASE UNCHANGED input_key
  <2>1. TypeOK' /\ TrimInv'
    BY <1>0, <1>1 DEF IInv, TypeOK, TrimInv, TrimLeft, TrimRight, Trims
  <2>2. BlankInv' /\ KeyInv'
    BY <1>0, <1>1 DEF BlankInv, KeyInv, Split, IsKey, Blank
  <2> QED
    BY <1>0, <2>1, <2>2 DEF IInv, DoneInv, IsKey
<1>2. CASE /\ TrimLeft /\ input_key # <<>> /\ input_key[1] \in Whitespace
           /\ input_key' = Tail(input_key)
  <2>1. /\ input_key' \in Seq(Characters) /\ Len(input_key') = n - 1 /\ n \in Nat \ {0}
        /\ \A i \in 1 .. n - 1 : input_key'[i] = input_key[i + 1]
    BY <1>0, <1>2, WithoutFirst
  <2>2. TypeOK' /\ TrimInv'
    BY <1>0, <1>2, <2>1 DEF IInv, TypeOK, TrimInv, TrimLeft
  <2>3. Blank(input_key') => Blank(input_key)
    <3> SUFFICES ASSUME Blank(input_key'), NEW i \in 1 .. n PROVE input_key[i] \in Whitespace
      BY DEF Blank
    <3>1. CASE i = 1
      BY <1>2, <3>1
    <3>2. CASE i # 1
      <4>1. i - 1 \in 1 .. n - 1 /\ (i - 1) + 1 = i
        BY <2>1, <3>2
      <4>2. input_key'[i - 1] = input_key[i]
        BY <2>1, <4>1
      <4> QED
        BY <2>1, <4>1, <4>2 DEF Blank
    <3> QED
      BY <3>1, <3>2
  <2>4. ~IsKey(documentHandle)
    BY <1>0, <1>2, <2>1, LegalIsSolid DEF KeyInv, Split, IsKey
  <2> QED
    BY <1>0, <2>2, <2>3, <2>4 DEF IInv, DoneInv, BlankInv, KeyInv, IsKey, Blank
<1>3. CASE /\ TrimRight /\ input_key # <<>> /\ input_key[n] \in Whitespace
           /\ input_key' = SubSeq(input_key, 1, n - 1)
  <2>1. /\ input_key' \in Seq(Characters) /\ Len(input_key') = n - 1 /\ n \in Nat \ {0}
        /\ \A i \in 1 .. n - 1 : input_key'[i] = input_key[i]
    BY <1>0, <1>3, WithoutLast
  <2>2. TypeOK' /\ TrimInv'
    BY <1>0, <1>3, <2>1 DEF IInv, TypeOK, TrimInv, TrimRight
  <2>3. Blank(input_key') => Blank(input_key)
    BY <1>3, <2>1 DEF Blank
  <2>4. ~IsKey(documentHandle)
    BY <1>0, <1>3, <2>1, LegalIsSolid DEF KeyInv, Split, IsKey
  <2> QED
    BY <1>0, <2>2, <2>3, <2>4 DEF IInv, DoneInv, BlankInv, KeyInv, IsKey, Blank
<1> QED
  BY <1>0, <1>1, <1>2, <1>3 DEF TrimLeft, TrimRight

\* A step of the loop leaves the invariant: a key has no character to replace or to skip.
LEMMA InvLoop == IInv /\ (Keep \/ Replace \/ Skip) => IInv'
<1> SUFFICES ASSUME IInv, Keep \/ Replace \/ Skip PROVE IInv'
  OBVIOUS
<1> DEFINE n == Len(input_key)  m == Len(legal_key)
<1>0. /\ documentHandle \in Seq(Characters) /\ input_key \in Seq(Characters)
      /\ legal_key \in Seq(Legal) /\ input_key # <<>> /\ pc = "loop" /\ BlankInv /\ KeyInv
      /\ UNCHANGED <<documentHandle, pc, again>>
  BY DEF IInv, TypeOK, Keep, Replace, Skip, Loops
<1>1. /\ input_key' \in Seq(Characters) /\ Len(input_key') = n - 1 /\ n \in Nat \ {0}
      /\ \A i \in 1 .. n - 1 : input_key'[i] = input_key[i + 1]
  BY <1>0, WithoutFirst DEF Keep, Replace, Skip, Loops
<1>2. legal_key' \in Seq(Legal) /\ legal_key' # <<>>
  <2>1. Underscore \in Legal
    BY SanitizationAssumption DEF Legal
  <2>2. CASE Keep
    BY <1>0, <2>2 DEF Keep
  <2>3. CASE Replace
    BY <1>0, <2>1, <2>3 DEF Replace
  <2>4. CASE Skip
    BY <1>0, <2>4 DEF IInv, TypeOK, Skip
  <2> QED
    BY <2>2, <2>3, <2>4
<1>3. TypeOK'
  <2>1. first' \in BOOLEAN
    BY DEF IInv, TypeOK, Keep, Replace, Skip
  <2> QED
    BY <1>0, <1>1, <1>2, <2>1 DEF IInv, TypeOK
<1>4. KeyInv'
  <2> SUFFICES ASSUME IsKey(documentHandle) PROVE Split'
    BY <1>0 DEF KeyInv, IsKey
  <2>1. Split
    BY <1>0 DEF KeyInv
  <2>0. m \in Nat /\ m + 1 \in 1 .. Len(documentHandle) /\ 1 \in 1 .. n
    BY <1>0, <1>1, <2>1 DEF Split
  <2>2. input_key[1] = documentHandle[m + 1] /\ input_key[1] \in Legal
    BY <2>0, <2>1 DEF Split, IsKey
  <2>3. legal_key' = Append(legal_key, input_key[1])
    BY <1>0, <2>2 DEF Keep, Replace, Skip
  <2>4. /\ Len(legal_key') = m + 1 /\ m \in Nat
        /\ \A i \in 1 .. m : legal_key'[i] = legal_key[i]
        /\ legal_key'[m + 1] = input_key[1]
    BY <1>0, <2>2, <2>3
  <2>5. \A i \in 1 .. Len(legal_key') : legal_key'[i] = documentHandle'[i]
    <3> SUFFICES ASSUME NEW i \in 1 .. m + 1 PROVE legal_key'[i] = documentHandle[i]
      BY <1>0, <2>4
    <3>1. CASE i = m + 1
      BY <2>2, <2>4, <3>1
    <3>2. CASE i \in 1 .. m
      BY <2>1, <2>4, <3>2 DEF Split
    <3> QED
      BY <2>4, <3>1, <3>2
  <2>6. \A i \in 1 .. Len(input_key') : input_key'[i] = documentHandle'[Len(legal_key') + i]
    <3> SUFFICES ASSUME NEW i \in 1 .. n - 1 PROVE input_key'[i] = documentHandle[m + 1 + i]
      BY <1>0, <1>1, <2>4
    <3>1. input_key[i + 1] = documentHandle[m + (i + 1)]
      BY <1>1, <2>1 DEF Split
    <3> QED
      BY <1>1, <2>4, <3>1
  <2>7. Len(legal_key') + Len(input_key') = Len(documentHandle')
    <3>1. m + n = Len(documentHandle)
      BY <2>1 DEF Split
    <3> QED
      <4> HIDE DEF n, m
      <4>1. documentHandle' = documentHandle /\ Len(input_key') = n - 1 /\ n \in Nat
        BY <1>0, <1>1
      <4> QED
        BY <2>4, <3>1, <4>1
  <2> QED
    BY <2>5, <2>6, <2>7 DEF Split
<1>5. TrimInv' /\ BlankInv' /\ DoneInv'
  BY <1>0, <1>2 DEF TrimInv, BlankInv, DoneInv
<1>6. (again => IsKey(documentHandle))'
  BY <1>0 DEF IInv, IsKey
<1> QED
  BY <1>3, <1>4, <1>5, <1>6 DEF IInv

\* Cutting leaves the invariant: a key is not too long, and something is left of the rest.
LEMMA InvCut == IInv /\ Cut => IInv'
<1> SUFFICES ASSUME IInv, Cut PROVE IInv'
  OBVIOUS
<1>0. /\ documentHandle \in Seq(Characters) /\ legal_key \in Seq(Legal)
      /\ input_key = <<>> /\ BlankInv /\ KeyInv
      /\ UNCHANGED <<documentHandle, input_key, first, again>>
      /\ pc' = "done" /\ legal_key' = Shortened(legal_key)
  BY DEF IInv, TypeOK, Cut
<1>1. /\ legal_key' \in Seq(Legal) /\ Len(legal_key') <= MaxLength
      /\ legal_key' = <<>> <=> legal_key = <<>>
  BY <1>0, SanitizationAssumption DEF Shortened
<1>2. TypeOK'
  BY <1>0, <1>1 DEF IInv, TypeOK
<1>3. Blank(input_key)
  BY <1>0 DEF Blank
<1>4. ASSUME IsKey(documentHandle) PROVE legal_key' = documentHandle
  <2>1. legal_key = documentHandle
    BY <1>0, <1>4 DEF KeyInv, Split
  <2> QED
    BY <1>0, <1>4, <2>1 DEF IsKey, Shortened
<1> QED
  BY <1>0, <1>1, <1>2, <1>3, <1>4 DEF IInv, TrimInv, DoneInv, BlankInv, IsKey, Blank

\* What was made is a key, and sanitizing it starts in the invariant.
LEMMA InvAgain == IInv /\ SanitizeAgain => IInv'
<1> SUFFICES ASSUME IInv, SanitizeAgain PROVE IInv'
  OBVIOUS
<1>0. /\ legal_key \in Seq(Legal) /\ Len(legal_key) <= MaxLength
      /\ documentHandle' = legal_key /\ input_key' = legal_key /\ legal_key' = <<>>
      /\ pc' = "ltrim" /\ first' = TRUE /\ again' = TRUE
  BY DEF IInv, TypeOK, DoneInv, SanitizeAgain
<1>1. TypeOK'
  BY <1>0, KeyIsText DEF TypeOK
<1>2. IsKey(documentHandle)'
  BY <1>0 DEF IsKey
<1>3. Split'
  BY <1>0 DEF Split
<1> QED
  BY <1>0, <1>1, <1>2, <1>3 DEF IInv, TrimInv, BlankInv, KeyInv, DoneInv, Blank

\* Steps that change nothing leave the invariant.
LEMMA InvStutter == IInv /\ UNCHANGED vars => IInv'
BY DEF IInv, vars, TypeOK, TrimInv, BlankInv, KeyInv, DoneInv, Split, Blank, IsKey

\* The inductive invariant of sanitization: the key so far and the text that is left
\* account for the text.
THEOREM SanitizationInvariant == Spec => []IInv
<1>1. IInv /\ [Next]_vars => IInv'
  BY InvTrim, InvLoop, InvCut, InvAgain, InvStutter DEF Next, Finished
<1> QED
  BY InvInit, <1>1, PTL DEF Spec

\* The variables keep their types, for every alphabet and every text.
THEOREM TypeCorrect == Spec => []TypeOK
<1>1. IInv => TypeOK
  BY DEF IInv
<1> QED
  BY SanitizationInvariant, <1>1, PTL

\* Whatever the text, the result has legal characters only, is not too long, and is not
\* empty unless the text is blank.
THEOREM Legality == Spec => []ResultIsKey
<1>1. IInv => ResultIsKey
  BY DEF IInv, TypeOK, DoneInv, ResultIsKey, Blank
<1> QED
  BY SanitizationInvariant, <1>1, PTL

\* sanitization is idempotent and changes no key of legal characters.
THEOREM Idempotence == Spec => []KeysAreKept
<1>1. IInv => KeysAreKept
  BY DEF IInv, TypeOK, DoneInv, KeysAreKept, IsKey
<1> QED
  BY SanitizationInvariant, <1>1, PTL

-----------------------------------------------------------------------------
(* The reference.  While the ends are trimmed, what is left is a window of the *)
(* text with nothing but whitespace outside of it; in the loop, the key so far *)
(* is what the reference makes of the characters the loop has looked at.       *)

Solid(d) == {i \in DOMAIN d : d[i] \notin Whitespace}
Trimmed(d) ==
  IF Solid(d) = {} THEN <<>>
  ELSE SubSeq(d, CHOOSE i \in Solid(d) : \A j \in Solid(d) : i <= j,
                 CHOOSE i \in Solid(d) : \A j \in Solid(d) : i >= j)
Kept(s) == {i \in DOMAIN s : s[i] \in Legal \/ i = 1 \/ s[i - 1] \in Legal}
Rank(s, i) == Cardinality({j \in Kept(s) : j <= i})

\* What the key has for a character that is kept.
Made(c) == IF c \in Legal THEN c ELSE Underscore

\* r is what is left of d after its first lo characters and some at its end, all whitespace.
Window(d, r, lo) ==
  /\ lo + Len(r) <= Len(d)
  /\ \A i \in 1 .. Len(r) : r[i] = d[lo + i]
  /\ \A i \in 1 .. Len(d) : i <= lo \/ lo + Len(r) < i => d[i] \in Whitespace

\* key is what the reference makes of the first k characters of s.
KeyOf(s, k, key) ==
  /\ Len(key) = Rank(s, k)
  /\ \A i \in Kept(s) : i <= k => key[Rank(s, i)] = Made(s[i])

\* The loop has looked at the first k characters of s.
Looked(s, k) ==
  /\ s \in Seq(Characters)
  /\ k + Len(input_key) = Len(s)
  /\ \A i \in 1 .. Len(input_key) : input_key[i] = s[k + i]
  /\ first <=> k = 0 \/ s[k] \in Legal
  /\ KeyOf(s, k, legal_key)

WindowInv ==
  pc \in {"ltrim", "rtrim"} =>
    /\ first
    /\ \E lo \in Nat : Window(documentHandle, input_key, lo)
    /\ pc = "rtrim" /\ input_key # <<>> => input_key[1] \notin Whitespace

LookedInv == pc = "loop" => \E k \in Nat : Looked(Trimmed(documentHandle), k)

\* key is what the reference makes of s, cut.
Agrees(s, key) ==
  /\ Len(key) = IF Cardinality(Kept(s)) < MaxLength THEN Cardinality(Kept(s)) ELSE MaxLength
  /\ \A i \in Kept(s) : Rank(s, i) <= MaxLength => key[Rank(s, i)] = Made(s[i])

RefInv ==
  WindowInv /\ LookedInv /\ (pc = "done" => Agrees(Trimmed(documentHandle), legal_key))

\* The characters of a part of a text.
LEMMA PartOfText ==
  ASSUME NEW d \in Seq(Characters), NEW lo \in Nat, NEW n \in Nat \ {0}, lo + n <= Len(d)
  PROVE  /\ SubSeq(d, lo + 1, lo + n) \in Seq(Characters)
         /\ Len(SubSeq(d, lo + 1, lo + n)) = n
         /\ \A i \in 1 .. n : SubSeq(d, lo + 1, lo + n)[i] = d[lo + i]
<1> DEFINE a == lo + 1  b == lo + n
<1>1. a \in Nat /\ b \in Nat /\ a <= b /\ \A i \in a .. b : d[i] \in Characters
  <2>1. a .. b \subseteq 1 .. Len(d)
    OBVIOUS
  <2> QED
    BY <2>1
<1>2. b - a + 1 = n /\ \A i \in 1 .. n : a + i - 1 = lo + i
  OBVIOUS
<1>3. /\ SubSeq(d, a, b) \in Seq(Characters)
      /\ Len(SubSeq(d, a, b)) = IF a <= b THEN b - a + 1 ELSE 0
      /\ \A i \in 1 .. b - a + 1 : SubSeq(d, a, b)[i] = d[a + i - 1]
  <2> HIDE DEF a, b
  <2> QED
    BY <1>1, SubSeqProperties
<1> HIDE DEF a, b
<1>4. Len(SubSeq(d, a, b)) = n /\ \A i \in 1 .. n : SubSeq(d, a, b)[i] = d[lo + i]
  BY <1>1, <1>2, <1>3
<1> QED
  BY <1>3, <1>4 DEF a, b

\* Ranks count the characters that are kept, one by one.
LEMMA RankFacts ==
  ASSUME NEW s \in Seq(Characters), NEW k \in 0 .. Len(s)
  PROVE  /\ IsFiniteSet({j \in Kept(s) : j <= k}) /\ Rank(s, k) \in Nat
         /\ k < Len(s) => Rank(s, k + 1) = IF k + 1 \in Kept(s) THEN Rank(s, k) + 1
                                           ELSE Rank(s, k)
<1> DEFINE upTo(i) == {j \in Kept(s) : j <= i}
<1>0. Len(s) \in Nat /\ DOMAIN s = 1 .. Len(s) /\ Kept(s) \subseteq 1 .. Len(s) /\ k \in Nat
  BY DEF Kept
<1>1. IsFiniteSet(upTo(k))
  <2>1. IsFiniteSet(1 .. Len(s))
    BY <1>0, FS_Interval
  <2>2. upTo(k) \in SUBSET (1 .. Len(s))
    BY <1>0
  <2> HIDE DEF upTo
  <2> QED
    BY <2>1, <2>2, FS_Subset
<1>2. Cardinality(upTo(k)) \in Nat
  <2> HIDE DEF upTo
  <2> QED
    BY <1>1, FS_CardinalityType
<1>3. ASSUME k < Len(s), k + 1 \in Kept(s)
      PROVE  Cardinality(upTo(k + 1)) = Cardinality(upTo(k)) + 1
  <2>1. upTo(k + 1) = upTo(k) \cup {k + 1} /\ k + 1 \notin upTo(k)
    BY <1>0, <1>3
  <2> HIDE DEF upTo
  <2> QED
    BY <1>1, <2>1, FS_AddElement
<1>4. ASSUME k < Len(s), k + 1 \notin Kept(s)
      PROVE  Cardinality(upTo(k + 1)) = Cardinality(upTo(k))
  <2>1. upTo(k + 1) = upTo(k)
    BY <1>0, <1>4
  <2> QED
    BY <2>1
<1> QED
  BY <1>1, <1>2, <1>3, <1>4 DEF Rank

\* A character that is kept has a place of its own among those kept so far.
LEMMA RankBound ==
  ASSUME NEW s \in Seq(Characters), NEW k \in 0 .. Len(s), NEW i \in Kept(s), i <= k
  PROVE  Rank(s, i) \in 1 .. Rank(s, k)
<1> DEFINE upTo(n) == {j \in Kept(s) : j <= n}
<1>0. Len(s) \in Nat /\ Kept(s) \subseteq 1 .. Len(s) /\ i \in 0 .. Len(s)
  BY DEF Kept
<1>1. /\ IsFiniteSet(upTo(k)) /\ IsFiniteSet(upTo(i))
      /\ Cardinality(upTo(k)) \in Nat /\ Cardinality(upTo(i)) \in Nat
  BY <1>0, RankFacts DEF Rank
<1>2. upTo(i) \in SUBSET upTo(k) /\ i \in upTo(i)
  BY <1>0
<1> HIDE DEF upTo
<1>3. Cardinality(upTo(i)) <= Cardinality(upTo(k))
  BY <1>1, <1>2, FS_Subset
<1>4. Cardinality(upTo(i)) # 0
  BY <1>1, <1>2, FS_EmptySet
<1> QED
  BY <1>1, <1>3, <1>4 DEF Rank, upTo

\* At the end of the text the rank is the number of characters kept.
LEMMA RankOfAll ==
  ASSUME NEW s \in Seq(Characters)
  PROVE  Rank(s, Len(s)) = Cardinality(Kept(s)) /\ Rank(s, 0) = 0
<1>1. Len(s) \in Nat /\ Kept(s) \subseteq 1 .. Len(s)
  BY DEF Kept
<1>2. {j \in Kept(s) : j <= Len(s)} = Kept(s) /\ {j \in Kept(s) : j <= 0} = {}
  BY <1>1
<1> QED
  BY <1>2, FS_EmptySet DEF Rank

\* The window that begins and ends with no whitespace is the trimmed text.
LEMMA WindowIsTrimmed ==
  ASSUME NEW d \in Seq(Characters), NEW r \in Seq(Characters), NEW lo \in Nat,
         Window(d, r, lo), r # <<>> => r[1] \notin Whitespace /\ r[Len(r)] \notin Whitespace
  PROVE  Trimmed(d) = r
<1> DEFINE n == Len(r)
<1>0. Len(d) \in Nat /\ n \in Nat /\ DOMAIN d = 1 .. Len(d)
  OBVIOUS
<1>1. CASE r = <<>>
  <2>1. n = 0
    BY <1>1
  <2>2. Solid(d) = {}
    BY <1>0, <2>1 DEF Window, Solid
  <2> QED
    BY <1>1, <2>2 DEF Trimmed
<1>2. CASE r # <<>>
  <2> DEFINE from == CHOOSE i \in Solid(d) : \A j \in Solid(d) : i <= j
             to   == CHOOSE i \in Solid(d) : \A j \in Solid(d) : i >= j
  <2>0. n \in Nat \ {0}
    BY <1>2
  <2>1. lo + 1 \in 1 .. Len(d) /\ lo + n \in 1 .. Len(d) /\ 1 \in 1 .. n /\ n \in 1 .. n
    BY <1>0, <2>0 DEF Window
  <2>2. d[lo + 1] = r[1] /\ d[lo + n] = r[n]
    BY <2>1 DEF Window
  <2>3. lo + 1 \in Solid(d) /\ lo + n \in Solid(d)
    BY <1>0, <1>2, <2>1, <2>2 DEF Solid
  <2>4. \A j \in Solid(d) : j \in Nat /\ lo + 1 <= j /\ j <= lo + n
    <3> SUFFICES ASSUME NEW j \in Solid(d) PROVE j \in Nat /\ lo + 1 <= j /\ j <= lo + n
      OBVIOUS
    <3>1. j \in 1 .. Len(d) /\ d[j] \notin Whitespace
      BY <1>0 DEF Solid
    <3>2. ~(j <= lo \/ lo + n < j)
      BY <3>1 DEF Window
    <3> QED
      BY <1>0, <3>1, <3>2
  <2>5. from = lo + 1
    <3>1. from \in Solid(d) /\ \A j \in Solid(d) : from <= j
      <4>1. \E i \in Solid(d) : \A j \in Solid(d) : i <= j
        BY <2>3, <2>4
      <4> QED
        BY <4>1
    <3> HIDE DEF from
    <3> QED
      BY <2>3, <2>4, <3>1
  <2>6. to = lo + n
    <3>1. to \in Solid(d) /\ \A j \in Solid(d) : to >= j
      <4>1. \E i \in Solid(d) : \A j \in Solid(d) : i >= j
        BY <1>0, <2>3, <2>4
      <4> QED
        BY <4>1
    <3> HIDE DEF to
    <3> QED
      BY <1>0, <2>3, <2>4, <3>1
  <2>7. Trimmed(d) = SubSeq(d, lo + 1, lo + n)
    <3>1. Solid(d) # {}
      BY <2>3
    <3>2. Trimmed(d) = SubSeq(d, from, to)
      BY <3>1 DEF Trimmed
    <3> QED
      BY <2>5, <2>6, <3>2
  <2>8. /\ SubSeq(d, lo + 1, lo + n) \in Seq(Characters)
        /\ Len(SubSeq(d, lo + 1, lo + n)) = n
        /\ \A i \in 1 .. n : SubSeq(d, lo + 1, lo + n)[i] = d[lo + i]
    BY <1>0, <2>0, <2>1, PartOfText
  <2>9. \A i \in 1 .. n : SubSeq(d, lo + 1, lo + n)[i] = r[i]
    BY <2>8 DEF Window
  <2> QED
    BY <2>7, <2>8, <2>9, SeqEqual
<1> QED
  BY <1>1, <1>2

\* A character that is kept, or what stands for it, makes the key longer ...
LEMMA KeepsKey ==
  ASSUME NEW s \in Seq(Characters), NEW key \in Seq(Legal), NEW k \in Nat, k < Len(s),
         KeyOf(s, k, key), k + 1 \in Kept(s)
  PROVE  KeyOf(s, k + 1, Append(key, Made(s[k + 1])))
<1> DEFINE c == Made(s[k + 1])
           longer == Append(key, c)
<1>1. c \in Legal
  BY SanitizationAssumption DEF Made, Legal
<1>2. /\ Len(key) \in Nat /\ Len(longer) = Len(key) + 1
      /\ \A i \in 1 .. Len(key) : longer[i] = key[i]
      /\ longer[Len(key) + 1] = c
  <2> HIDE DEF c
  <2> QED
    BY <1>1
<1>3. Len(s) \in Nat /\ k \in 0 .. Len(s) /\ Kept(s) \subseteq 1 .. Len(s)
  BY DEF Kept
<1>4. Rank(s, k) = Len(key) /\ Rank(s, k + 1) = Len(key) + 1
  BY <1>3, RankFacts DEF KeyOf
<1> HIDE DEF longer, c
<1>5. ASSUME NEW i \in Kept(s), i <= k + 1
      PROVE  longer[Rank(s, i)] = Made(s[i])
  <2>1. CASE i = k + 1
    BY <1>2, <1>4, <2>1 DEF c
  <2>2. CASE i # k + 1
    <3>1. i <= k
      BY <1>3, <1>5, <2>2
    <3>2. Rank(s, i) \in 1 .. Len(key)
      BY <1>3, <1>4, <3>1, RankBound
    <3> QED
      BY <1>2, <3>1, <3>2 DEF KeyOf
  <2> QED
    BY <2>1, <2>2
<1> QED
  BY <1>2, <1>4, <1>5 DEF KeyOf, longer, c

\* ... and one that is not leaves it.
LEMMA SkipsKey ==
  ASSUME NEW s \in Seq(Characters), NEW key, NEW k \in Nat, k < Len(s),
         KeyOf(s, k, key), k + 1 \notin Kept(s)
  PROVE  KeyOf(s, k + 1, key)
<1>1. Len(s) \in Nat /\ k \in 0 .. Len(s) /\ Kept(s) \subseteq 1 .. Len(s)
  BY DEF Kept
<1>2. Rank(s, k + 1) = Rank(s, k)
  BY <1>1, RankFacts
<1>3. \A i \in Kept(s) : i <= k + 1 => i <= k
  BY <1>1
<1> QED
  BY <1>2, <1>3 DEF KeyOf

\* Nothing has been trimmed of a new text.
LEMMA RefStart ==
  ASSUME NEW d \in Seq(Characters)
  PROVE  Window(d, d, 0)
<1>1. Len(d) \in Nat
  OBVIOUS
<1> QED
  BY <1>1 DEF Window

\* A text begins with nothing trimmed.
LEMMA RefInit == Init => RefInv
<1> SUFFICES ASSUME Init PROVE RefInv
  OBVIOUS
<1>1. documentHandle \in Seq(Characters) /\ input_key = documentHandle /\ pc = "ltrim" /\ first
  BY SanitizationAssumption DEF Init
<1>2. Window(documentHandle, input_key, 0)
  BY <1>1, RefStart
<1> QED
  BY <1>1, <1>2 DEF RefInv, WindowInv, LookedInv

\* Trimming on the left moves the window's begin.
LEMMA RefTrimLeft == IInv /\ RefInv /\ TrimLeft => RefInv'
<1> SUFFICES ASSUME IInv, RefInv, TrimLeft PROVE RefInv'
  OBVIOUS
<1> DEFINE d == documentHandle  n == Len(input_key)
<1>0. /\ d \in Seq(Characters) /\ input_key \in Seq(Characters) /\ pc = "ltrim" /\ first
      /\ UNCHANGED <<documentHandle, legal_key, first, again>>
      /\ n \in Nat /\ Len(d) \in Nat
  BY DEF IInv, TypeOK, TrimLeft, Trims, RefInv, WindowInv
<1>1. PICK lo \in Nat : Window(d, input_key, lo)
  BY <1>0 DEF RefInv, WindowInv
<1>2. CASE input_key # <<>> /\ input_key[1] \in Whitespace /\ input_key' = Tail(input_key)
           /\ pc' = "ltrim"
  <2>1. /\ Len(input_key') = n - 1 /\ n \in Nat \ {0}
        /\ \A i \in 1 .. n - 1 : input_key'[i] = input_key[i + 1]
    BY <1>0, <1>2, WithoutFirst
  <2>2. d[lo + 1] \in Whitespace
    <3>1. 1 \in 1 .. n
      BY <2>1
    <3> QED
      BY <1>1, <1>2, <3>1 DEF Window
  <2>3. Window(d, input_key', lo + 1)
    <3>1. (lo + 1) + Len(input_key') = lo + n
      BY <1>0, <2>1
    <3>2. ASSUME NEW i \in 1 .. Len(input_key') PROVE input_key'[i] = d[(lo + 1) + i]
      <4>1. i + 1 \in 1 .. n /\ lo + (i + 1) = (lo + 1) + i
        BY <1>0, <2>1
      <4> QED
        BY <1>1, <2>1, <4>1 DEF Window
    <3>3. ASSUME NEW i \in 1 .. Len(d), i <= lo + 1 \/ (lo + 1) + Len(input_key') < i
          PROVE  d[i] \in Whitespace
      BY <1>0, <1>1, <2>2, <3>1, <3>3 DEF Window
    <3> QED
      BY <1>1, <3>1, <3>2, <3>3 DEF Window
  <2>4. lo + 1 \in Nat
    OBVIOUS
  <2> QED
    BY <1>0, <1>2, <2>3, <2>4 DEF RefInv, WindowInv, LookedInv
<1>3. CASE ~(input_key # <<>> /\ input_key[1] \in Whitespace) /\ pc' = "rtrim"
           /\ UNCHANGED input_key
  BY <1>0, <1>1, <1>3 DEF RefInv, WindowInv, LookedInv
<1> QED
  BY <1>0, <1>2, <1>3 DEF TrimLeft

\* Trimming on the right moves its end; then the window is the trimmed text.
LEMMA RefTrimRight == IInv /\ RefInv /\ TrimRight => RefInv'
<1> SUFFICES ASSUME IInv, RefInv, TrimRight PROVE RefInv'
  OBVIOUS
<1> DEFINE d == documentHandle  n == Len(input_key)
<1>0. /\ d \in Seq(Characters) /\ input_key \in Seq(Characters) /\ pc = "rtrim" /\ first
      /\ UNCHANGED <<documentHandle, legal_key, first, again>>
      /\ legal_key = <<>> /\ n \in Nat /\ Len(d) \in Nat
      /\ input_key # <<>> => input_key[1] \notin Whitespace
  BY DEF IInv, TypeOK, TrimInv, TrimRight, Trims, RefInv, WindowInv
<1>1. PICK lo \in Nat : Window(d, input_key, lo)
  BY <1>0 DEF RefInv, WindowInv
<1>2. CASE /\ input_key # <<>> /\ input_key[n] \in Whitespace
           /\ input_key' = SubSeq(input_key, 1, n - 1) /\ pc' = "rtrim"
  <2>1. /\ input_key' \in Seq(Characters) /\ Len(input_key') = n - 1 /\ n \in Nat \ {0}
        /\ \A i \in 1 .. n - 1 : input_key'[i] = input_key[i]
    BY <1>0, <1>2, WithoutLast
  <2>2. d[lo + n] \in Whitespace
    <3>1. n \in 1 .. n
      BY <2>1
    <3> QED
      BY <1>1, <1>2, <3>1 DEF Window
  <2>3. Window(d, input_key', lo)
    <3>1. lo + Len(input_key') = lo + n - 1
      BY <1>0, <2>1
    <3>2. \A i \in 1 .. Len(input_key') : input_key'[i] = d[lo + i]
      BY <1>1, <2>1 DEF Window
    <3>3. ASSUME NEW i \in 1 .. Len(d), i <= lo \/ lo + Len(input_key') < i
          PROVE  d[i] \in Whitespace
      BY <1>0, <1>1, <2>2, <3>1, <3>3 DEF Window
    <3>4. lo + Len(input_key') <= Len(d)
      BY <1>0, <1>1, <3>1 DEF Window
    <3> QED
      BY <3>2, <3>3, <3>4 DEF Window
  <2>4. input_key' # <<>> => input_key'[1] \notin Whitespace
    <3> SUFFICES ASSUME input_key' # <<>> PROVE input_key'[1] \notin Whitespace
      OBVIOUS
    <3>1. n - 1 # 0
      BY <2>1
    <3>2. 1 \in 1 .. n - 1
      BY <2>1, <3>1
    <3> QED
      BY <1>0, <1>2, <2>1, <3>2
  <2> QED
    BY <1>0, <1>2, <2>3, <2>4 DEF RefInv, WindowInv, LookedInv
<1>3. CASE /\ ~(input_key # <<>> /\ input_key[n] \in Whitespace) /\ pc' = "loop"
           /\ UNCHANGED input_key
  <2>1. Trimmed(d) = input_key
    BY <1>0, <1>1, <1>3, WindowIsTrimmed
  <2>2. KeyOf(input_key, 0, <<>>)
    <3>1. Kept(input_key) \subseteq 1 .. n
      BY <1>0 DEF Kept
    <3> QED
      BY <1>0, <3>1, RankOfAll DEF KeyOf
  <2>3. Looked(input_key, 0)'
    BY <1>0, <1>3, <2>2 DEF Looked
  <2>4. Looked(Trimmed(documentHandle), 0)'
    <3>1. Trimmed(documentHandle)' = input_key /\ input_key' = input_key
      BY <1>0, <1>3, <2>1
    <3> HIDE DEF d
    <3> QED
      BY <2>3, <3>1
  <2> QED
    BY <1>3, <2>4 DEF RefInv, WindowInv, LookedInv
<1> QED
  BY <1>0, <1>2, <1>3 DEF TrimRight

\* A step of the loop makes of one more character what the reference makes of it.
LEMMA RefLoop == IInv /\ RefInv /\ (Keep \/ Replace \/ Skip) => RefInv'
<1> SUFFICES ASSUME IInv, RefInv, Keep \/ Replace \/ Skip PROVE RefInv'
  OBVIOUS
<1> DEFINE s == Trimmed(documentHandle)  n == Len(input_key)
<1>0. /\ input_key \in Seq(Characters) /\ legal_key \in Seq(Legal) /\ input_key # <<>>
      /\ pc = "loop" /\ UNCHANGED <<documentHandle, pc>>
      /\ input_key' = Tail(input_key) /\ first \in BOOLEAN
  BY DEF IInv, TypeOK, Keep, Replace, Skip, Loops
<1>1. PICK k \in Nat : Looked(s, k)
  BY <1>0 DEF RefInv, LookedInv
<1> HIDE DEF s
<1>2. /\ Len(input_key') = n - 1 /\ n \in Nat \ {0}
      /\ \A i \in 1 .. n - 1 : input_key'[i] = input_key[i + 1]
  BY <1>0, WithoutFirst
<1>3. /\ s \in Seq(Characters) /\ k + n = Len(s) /\ Len(s) \in Nat /\ k + 1 \in 1 .. Len(s)
      /\ first <=> k = 0 \/ s[k] \in Legal
      /\ KeyOf(s, k, legal_key)
  BY <1>1, <1>2 DEF Looked
<1>4. input_key[1] = s[k + 1]
  <2>1. 1 \in 1 .. n
    BY <1>2
  <2> QED
    BY <1>1, <2>1 DEF Looked
<1>5. k + 1 \in Kept(s) <=> s[k + 1] \in Legal \/ first
  <2>1. k + 1 \in DOMAIN s /\ (k + 1) - 1 = k /\ (k + 1 = 1 <=> k = 0)
    BY <1>3
  <2> QED
    BY <1>3, <2>1 DEF Kept
<1>6. \/ k + 1 \in Kept(s) /\ legal_key' = Append(legal_key, Made(s[k + 1]))
      \/ k + 1 \notin Kept(s) /\ legal_key' = legal_key
  BY <1>0, <1>4, <1>5 DEF Keep, Replace, Skip, Made
<1>7. first' <=> s[k + 1] \in Legal
  BY <1>0, <1>4 DEF Keep, Replace, Skip
<1>8. KeyOf(s, k + 1, legal_key')
  <2>1. k < Len(s)
    BY <1>3
  <2>2. CASE k + 1 \in Kept(s) /\ legal_key' = Append(legal_key, Made(s[k + 1]))
    BY <1>0, <1>3, <2>1, <2>2, KeepsKey
  <2>3. CASE k + 1 \notin Kept(s) /\ legal_key' = legal_key
    BY <1>0, <1>3, <2>1, <2>3, SkipsKey
  <2> QED
    BY <1>6, <2>2, <2>3
<1>9. \A i \in 1 .. Len(input_key') : input_key'[i] = s[(k + 1) + i]
  <2> SUFFICES ASSUME NEW i \in 1 .. n - 1 PROVE input_key'[i] = s[(k + 1) + i]
    BY <1>2
  <2>1. i + 1 \in 1 .. n /\ k + (i + 1) = (k + 1) + i
    BY <1>2
  <2> QED
    BY <1>1, <1>2, <2>1 DEF Looked
<1>10. s' = s /\ k + 1 \in Nat /\ k + 1 # 0 /\ (k + 1) + Len(input_key') = Len(s)
  BY <1>0, <1>2, <1>3 DEF s
<1>11. Looked(s, k + 1)'
  BY <1>3, <1>7, <1>8, <1>9, <1>10 DEF Looked
<1> QED
  BY <1>0, <1>10, <1>11 DEF RefInv, WindowInv, LookedInv, s

\* What is cut is at the end of the key.
LEMMA RefCut == IInv /\ RefInv /\ Cut => RefInv'
<1> SUFFICES ASSUME IInv, RefInv, Cut PROVE RefInv'
  OBVIOUS
<1> DEFINE s == Trimmed(documentHandle)  m == Len(legal_key)
<1>0. /\ legal_key \in Seq(Legal) /\ input_key = <<>> /\ pc = "loop" /\ pc' = "done"
      /\ UNCHANGED documentHandle /\ legal_key' = Shortened(legal_key)
  BY DEF IInv, TypeOK, Cut
<1>1. PICK k \in Nat : Looked(s, k)
  BY <1>0 DEF RefInv, LookedInv
<1> HIDE DEF s
<1>2. s \in Seq(Characters) /\ k = Len(s) /\ KeyOf(s, k, legal_key)
  <2>1. s \in Seq(Characters) /\ KeyOf(s, k, legal_key) /\ k + Len(input_key) = Len(s)
    BY <1>1 DEF Looked
  <2>2. Len(input_key) = 0
    BY <1>0
  <2> QED
    BY <2>1, <2>2
<1>3. m = Cardinality(Kept(s)) /\ m \in Nat
  BY <1>0, <1>2, RankOfAll DEF KeyOf
<1>4. /\ Len(legal_key') = IF m < MaxLength THEN m ELSE MaxLength
      /\ \A i \in 1 .. m : i <= MaxLength => legal_key'[i] = legal_key[i]
  <2>1. CASE m <= MaxLength
    BY <1>0, <2>1, SanitizationAssumption DEF Shortened
  <2>2. CASE ~(m <= MaxLength)
    <3>1. legal_key' = SubSeq(legal_key, 1, MaxLength)
      BY <1>0, <2>2 DEF Shortened
    <3>2. MaxLength \in Nat \ {0} /\ MaxLength < m
      BY <1>3, <2>2, SanitizationAssumption
    <3>3. /\ Len(SubSeq(legal_key, 1, MaxLength)) = MaxLength
          /\ \A i \in 1 .. MaxLength : SubSeq(legal_key, 1, MaxLength)[i] = legal_key[i]
      BY <1>0, <3>2
    <3> QED
      BY <1>3, <3>1, <3>2, <3>3
  <2> QED
    BY <2>1, <2>2
<1>5. \A i \in Kept(s) : Rank(s, i) \in 1 .. m /\ legal_key[Rank(s, i)] = Made(s[i])
  <2> SUFFICES ASSUME NEW i \in Kept(s)
               PROVE  Rank(s, i) \in 1 .. m /\ legal_key[Rank(s, i)] = Made(s[i])
    OBVIOUS
  <2>1. i <= k /\ k \in 0 .. Len(s)
    BY <1>2 DEF Kept
  <2>2. Rank(s, i) \in 1 .. Rank(s, k)
    BY <1>2, <2>1, RankBound
  <2> QED
    BY <1>2, <2>1, <2>2 DEF KeyOf
<1>6. Agrees(s, legal_key')
  <2> HIDE DEF m
  <2> QED
    BY <1>3, <1>4, <1>5 DEF Agrees
<1>7. Trimmed(documentHandle)' = s
  BY <1>0 DEF s
<1> QED
  BY <1>0, <1>6, <1>7 DEF RefInv, WindowInv, LookedInv

\* The reference holds of a key that is sanitized as of any text.
LEMMA RefAgain == IInv /\ RefInv /\ SanitizeAgain => RefInv'
<1> SUFFICES ASSUME IInv, SanitizeAgain PROVE RefInv'
  OBVIOUS
<1>1. /\ legal_key \in Seq(Characters) /\ documentHandle' = legal_key
      /\ input_key' = legal_key /\ pc' = "ltrim" /\ first'
  BY KeyIsText DEF IInv, TypeOK, SanitizeAgain
<1>2. Window(documentHandle', input_key', 0)
  BY <1>1, RefStart
<1> QED
  BY <1>1, <1>2 DEF RefInv, WindowInv, LookedInv

\* The key is what the definition without a loop says, for all texts and lengths.
THEOREM Reference == Spec => []AgreesWithReference
<1>1. IInv /\ RefInv /\ UNCHANGED vars => RefInv'
  BY DEF RefInv, WindowInv, LookedInv, Looked, vars
<1>2. IInv /\ RefInv /\ [Next]_vars => RefInv'
  BY <1>1, RefTrimLeft, RefTrimRight, RefLoop, RefCut, RefAgain DEF Next, Finished
<1>3. RefInv => AgreesWithReference
  BY DEF RefInv, Agrees, AgreesWithReference, Trimmed, Solid, Kept, Rank, Made
<1> QED
  BY <1>2, <1>3, RefInit, SanitizationInvariant, PTL DEF Spec
=============================================================================
